---------------------------- MODULE Spec2Model ----------------------------
(***************************************************************************)
(* A model of parts of cert-manager:                                       *)
(*   - the certificate-shim reconciliation function (SyncFnFor and its     *)
(*     helpers) in its two revisions found in                              *)
(*     pkg/controller/certificate-shim/sync.go,                            *)
(*   - the ingress-shim / gateway-shim controllers (Register, ProcessItem, *)
(*     certificateDeleted) in their revisions,                             *)
(*   - the Vault issuer backend's Setup.                                   *)
(* Each subsystem has its own specification (SpecSync, SpecQueue, ...);    *)
(* the variables of the other subsystems are left untouched by it.         *)
(***************************************************************************)
EXTENDS Integers, Sequences, FiniteSets, TLC

VARIABLES
    ingLike,      \* the Ingress or Gateway handed to the sync function
    defaults,     \* controller.IngressShimOptions of the running controller
    crts,         \* Certificates of the object's namespace (lister = cluster)
    rec,          \* what the last call of the sync function did
    ctrl,         \* which controller source is running (see Controllers)
    discovery,    \* the server's answer to ServerResourcesForGroupVersion
    reg,          \* what Register returned and registered
    objExists,    \* the controller's Ingress/Gateway lister holds ingLike
    wq,           \* the controller's work queue: [queue, dirty, processing]
    limiter,      \* its rate limiter: [delayed, requeues]
    busy,         \* worker -> the key it is processing (NoKey when idle)
    lastProc,     \* what the last ProcessItem call did and returned
    lastEv,       \* the last Certificate deletion seen by the event handler
    cmp,          \* two Certificates and what certNeedsUpdate said of them
    vault,        \* a Vault issuer, its server, and what Setup did
    acme,         \* an ACME issuer, its account key secret, and what Setup did
    chk,          \* an issuer, a secret, and what SecretChecker said
    codec,        \* a bundle, and what the PKCS1 codec made of it
    metrics,      \* the certificate gauges of the metrics registry
    inst,         \* a run of ctl install: its options, its steps, its result
    fn,           \* an input of a pure function and what it returned
    venafi        \* a call of the Venafi issuer's Issue, step by step

syncVars == <<ingLike, defaults, crts, rec>>

shimVars == <<ctrl, discovery, reg, objExists, wq, limiter, busy, lastProc, lastEv>>

miscVars == <<acme, chk, codec>>

pureVars == <<cmp, vault, acme, chk, codec>>

toolVars == <<metrics, inst, fn, venafi>>

vars == <<ingLike, defaults, crts, rec,
          ctrl, discovery, reg, objExists, wq, limiter, busy, lastProc, lastEv,
          cmp, vault, acme, chk, codec,
          metrics, inst, fn, venafi>>

----------------------------------------------------------------------------
(* Bounds of the model.                                                    *)

\* longest spec.tls / spec.listeners list of the synced object
MaxTLS == 3

----------------------------------------------------------------------------
(* The values a subsystem's variables keep while another one is studied.   *)

NoKey == <<>>

Workers == {"w1", "w2"}

NoProc == [key |-> NoKey, lookup |-> "none", sync |-> "none", ret |-> "none"]

NoEvent == [seen |-> FALSE, owner |-> [kind |-> "", name |-> <<>>], added |-> {}]

ShimIdle ==
    /\ ctrl = "none"
    /\ discovery = [err |-> FALSE, APIResources |-> <<>>, restConfigErr |-> FALSE]
    /\ reg = [state |-> "init", queue |-> FALSE, handlers |-> {}]
    /\ objExists = FALSE
    /\ wq = [queue |-> <<>>, dirty |-> {}, processing |-> {}]
    /\ limiter = [delayed |-> {}, requeues |-> <<>>]
    /\ busy = [w \in Workers |-> NoKey]
    /\ lastProc = NoProc
    /\ lastEv = NoEvent

SyncIdle ==
    /\ ingLike = [kind |-> "none"]
    /\ defaults = [DefaultIssuerName |-> ""]
    /\ crts = {}
    /\ rec = [rev |-> "none"]

MiscIdle ==
    /\ acme = [ran |-> FALSE]
    /\ chk = [result |-> "unset"]
    /\ codec = [stage |-> "idle"]

PureIdle ==
    /\ cmp = [result |-> "unset"]
    /\ vault = [ready |-> "unset"]
    /\ MiscIdle

ToolIdle ==
    /\ metrics = [on |-> FALSE]
    /\ inst = [step |-> "idle"]
    /\ fn = [op |-> "none"]
    /\ venafi = [step |-> "idle"]

----------------------------------------------------------------------------
(* Generic helpers.                                                        *)

Range(s) == {s[i] : i \in 1..Len(s)}

SeqsUpTo(S, n) == UNION {[1..k -> S] : k \in 0..n}

\* number of list positions i whose element satisfies the membership test
CountIn(s, x) == Cardinality({i \in 1..Len(s) : s[i] = x})

----------------------------------------------------------------------------
(* Annotation keys and kinds (the wire contract of the shim).              *)

IngressIssuerNameAnnotationKey == "cert-manager.io/issuer"
IngressClusterIssuerNameAnnotationKey == "cert-manager.io/cluster-issuer"
IssuerKindAnnotationKey == "cert-manager.io/issuer-kind"
IssuerGroupAnnotationKey == "cert-manager.io/issuer-group"
TLSACMEAnnotationKey == "kubernetes.io/tls-acme"
IssuerKind == "Issuer"
ClusterIssuerKind == "ClusterIssuer"

reasonBadConfig == "BadConfig"
reasonCreateCertificate == "CreateCertificate"
reasonUpdateCertificate == "UpdateCertificate"
reasonDeleteCertificate == "DeleteCertificate"
EventTypeWarning == "Warning"
EventTypeNormal == "Normal"

----------------------------------------------------------------------------
(* Data: objects and Certificates.                                         *)

NilString == "<nil>"      \* a nil *string / *Hostname / *TLSModeType

NoOwner == [kind |-> "", name |-> "", uid |-> ""]

\* labels: Go distinguishes a nil map from an empty one (reflect.DeepEqual)
NilLabels == [isNil |-> TRUE, kv |-> {}]
EmptyLabels == [isNil |-> FALSE, kv |-> {}]

NoAnnotations == [k \in {} |-> ""]

\* metav1.NewControllerRef(ingLike, gvk)
NewControllerRef(o) == [kind |-> o.kind, name |-> o.name, uid |-> o.uid]

\* metav1.GetControllerOf(crt) == nil
HasNoController(crt) == crt.owner = NoOwner

\* metav1.IsControlledBy(crt, o): a controller reference with o's UID
IsControlledBy(crt, o) == crt.owner # NoOwner /\ crt.owner.uid = o.uid

\* cmLister.Certificates(ns).Get(name): the set holding the Certificate of
\* that name, empty when it is not found
ListerGet(store, name) == {c \in store : c.name = name}


----------------------------------------------------------------------------
(* hasShimAnnotation and issuerForIngressLike.                             *)

\* strconv.ParseBool(s) yields true
ParseBoolTrue(s) == s \in {"1", "t", "T", "TRUE", "true", "True"}

\* hasShimAnnotation reading an issuer annotation with an empty value as absent
hasShimAnnotation_nonEmptyValue(o, autoCertificateAnnotations) ==
    \/ /\ IngressIssuerNameAnnotationKey \in DOMAIN o.annotations
       /\ o.annotations[IngressIssuerNameAnnotationKey] # ""
    \/ /\ IngressClusterIssuerNameAnnotationKey \in DOMAIN o.annotations
       /\ o.annotations[IngressClusterIssuerNameAnnotationKey] # ""
    \/ \E x \in autoCertificateAnnotations :
          x \in DOMAIN o.annotations /\ ParseBoolTrue(o.annotations[x])

\* issuerForIngressLike without the check of cluster-issuer against
\* issuer-group
issuerForIngressLike_groupWithClusterIssuer(d, o) ==
    LET a == o.annotations
        issuerNameOK == IngressIssuerNameAnnotationKey \in DOMAIN a
        clusterIssuerNameOK == IngressClusterIssuerNameAnnotationKey \in DOMAIN a
        kindNameOK == IssuerKindAnnotationKey \in DOMAIN a
        groupNameOK == IssuerGroupAnnotationKey \in DOMAIN a
        name1 == IF issuerNameOK THEN a[IngressIssuerNameAnnotationKey]
                 ELSE d.DefaultIssuerName
        kind1 == IF issuerNameOK THEN IssuerKind ELSE d.DefaultIssuerKind
        name == IF clusterIssuerNameOK
                THEN a[IngressClusterIssuerNameAnnotationKey] ELSE name1
        kind2 == IF clusterIssuerNameOK THEN ClusterIssuerKind ELSE kind1
        kind == IF kindNameOK THEN a[IssuerKindAnnotationKey] ELSE kind2
        group == IF groupNameOK THEN a[IssuerGroupAnnotationKey]
                 ELSE d.DefaultIssuerGroup
        errs == (IF name = "" THEN 1 ELSE 0)
              + (IF issuerNameOK /\ clusterIssuerNameOK THEN 1 ELSE 0)
              + (IF clusterIssuerNameOK /\ kindNameOK THEN 1 ELSE 0)
    IN  IF errs > 0
        THEN [name |-> "", kind |-> "", group |-> "", errs |-> errs]
        ELSE [name |-> name, kind |-> kind, group |-> group, errs |-> 0]

hasShimAnnotation(o, autoCertificateAnnotations) ==
    \/ IngressIssuerNameAnnotationKey \in DOMAIN o.annotations
    \/ IngressClusterIssuerNameAnnotationKey \in DOMAIN o.annotations
    \/ \E x \in autoCertificateAnnotations :
          x \in DOMAIN o.annotations /\ ParseBoolTrue(o.annotations[x])

\* [name, kind, group, errs]; errs is the number of collected error strings,
\* and name, kind and group are "" when it is not 0
issuerForIngressLike(d, o) ==
    LET a == o.annotations
        issuerNameOK == IngressIssuerNameAnnotationKey \in DOMAIN a
        clusterIssuerNameOK == IngressClusterIssuerNameAnnotationKey \in DOMAIN a
        kindNameOK == IssuerKindAnnotationKey \in DOMAIN a
        groupNameOK == IssuerGroupAnnotationKey \in DOMAIN a
        name1 == IF issuerNameOK THEN a[IngressIssuerNameAnnotationKey]
                 ELSE d.DefaultIssuerName
        kind1 == IF issuerNameOK THEN IssuerKind ELSE d.DefaultIssuerKind
        name == IF clusterIssuerNameOK
                THEN a[IngressClusterIssuerNameAnnotationKey] ELSE name1
        kind2 == IF clusterIssuerNameOK THEN ClusterIssuerKind ELSE kind1
        kind == IF kindNameOK THEN a[IssuerKindAnnotationKey] ELSE kind2
        group == IF groupNameOK THEN a[IssuerGroupAnnotationKey]
                 ELSE d.DefaultIssuerGroup
        errs == (IF name = "" THEN 1 ELSE 0)
              + (IF issuerNameOK /\ clusterIssuerNameOK THEN 1 ELSE 0)
              + (IF clusterIssuerNameOK /\ groupNameOK THEN 1 ELSE 0)
              + (IF clusterIssuerNameOK /\ kindNameOK THEN 1 ELSE 0)
    IN  IF errs > 0
        THEN [name |-> "", kind |-> "", group |-> "", errs |-> errs]
        ELSE [name |-> name, kind |-> kind, group |-> group, errs |-> 0]

----------------------------------------------------------------------------
(* Validation, first revision (field paths): validateIngressLike.          *)

\* the names that appear in more than one position of s, each once, in the
\* order of their first appearance
RECURSIVE DuplicatedFrom(_, _)
DuplicatedFrom(s, i) ==
    IF i > Len(s) THEN <<>>
    ELSE (IF (\A j \in 1..(i - 1) : s[j] # s[i]) /\ CountIn(s, s[i]) > 1
          THEN <<s[i]>> ELSE <<>>) \o DuplicatedFrom(s, i + 1)

\* validateIngressTLS reporting a secretName only from its third use on
RECURSIVE TripledFrom(_, _)
TripledFrom(s, i) ==
    IF i > Len(s) THEN <<>>
    ELSE (IF (\A j \in 1..(i - 1) : s[j] # s[i]) /\ CountIn(s, s[i]) > 2
          THEN <<s[i]>> ELSE <<>>) \o TripledFrom(s, i + 1)

validateIngressTLS_offByOne(tlsBlocks) ==
    TripledFrom([i \in 1..Len(tlsBlocks) |-> tlsBlocks[i].secretName], 1)

\* one error per secretName used by more than one TLS block
validateIngressTLS(tlsBlocks) ==
    DuplicatedFrom([i \in 1..Len(tlsBlocks) |-> tlsBlocks[i].secretName], 1)

\* the list of missing fields of one TLS block
validateIngressTLSBlock(tlsBlock) ==
    (IF Len(tlsBlock.hosts) = 0 THEN <<"hosts">> ELSE <<>>)
    \o (IF tlsBlock.secretName = "" THEN <<"secretName">> ELSE <<>>)

HasCertificateRef(l) == l.tls.present /\ l.tls.certificateRef.present

\* one error per certificateRef.name used by more than one listener; the
\* listeners without TLS block or certificateRef are skipped here
validateGatewayListeners(listeners) ==
    LET withRef == SelectSeq(listeners, HasCertificateRef)
    IN  DuplicatedFrom(
            [i \in 1..Len(withRef) |-> withRef[i].tls.certificateRef.name], 1)

\* the list of rejected fields of one listener
validateGatewayListenerBlock(l) ==
    (IF l.hostname = NilString \/ l.hostname = "" THEN <<"hostname">> ELSE <<>>)
    \o (IF ~l.tls.present THEN <<"tls">>
        ELSE (IF ~l.tls.certificateRef.present THEN <<"tls.certificateRef">>
              ELSE (IF l.tls.certificateRef.group # "core"
                    THEN <<"tls.certificateRef.group">> ELSE <<>>)
                \o (IF l.tls.certificateRef.kind # "Secret"
                    THEN <<"tls.certificateRef.kind">> ELSE <<>>)
                \o (IF l.tls.certificateRef.name = ""
                    THEN <<"tls.certificateRef.name">> ELSE <<>>))
          \o (IF l.tls.mode = NilString \/ l.tls.mode # "Terminate"
              THEN <<"tls.mode">> ELSE <<>>))

validateIngressLike(o) ==
    IF o.kind = "Ingress" THEN validateIngressTLS(o.tls)
    ELSE validateGatewayListeners(o.listeners)

----------------------------------------------------------------------------
(* Validation, second revision (aggregated errors): validateIngress.       *)
(* A result is [panic, errs]: the second revision dereferences Hostname,   *)
(* CertificateRef and Mode of a listener without a nil check.              *)

\* the walk of validateGatewayListeners over listeners i.. with the errors
\* collected so far
RECURSIVE ListenersWalk_r2(_, _, _)
ListenersWalk_r2(listeners, i, errs) ==
    IF i > Len(listeners) THEN [panic |-> FALSE, errs |-> errs]
    ELSE LET l == listeners[i]
         IN  IF ~l.tls.present
             THEN (IF l.hostname = NilString
                   THEN [panic |-> TRUE, errs |-> <<>>]
                   ELSE [panic |-> FALSE, errs |-> <<"tls">>])
             ELSE IF ~l.tls.certificateRef.present \/ l.tls.mode = NilString
             THEN [panic |-> TRUE, errs |-> <<>>]
             ELSE IF l.tls.mode = "Passthrough" /\ l.hostname = NilString
             THEN [panic |-> TRUE, errs |-> <<>>]
             ELSE ListenersWalk_r2(listeners, i + 1,
                     errs
                     \o (IF l.tls.certificateRef.group # "core"
                         THEN <<"tls.certificateRef.group">> ELSE <<>>)
                     \o (IF l.tls.mode = "Passthrough"
                         THEN <<"tls.mode">> ELSE <<>>))

validateGatewayListeners_r2(listeners) == ListenersWalk_r2(listeners, 1, <<>>)

validateIngress(o) ==
    IF o.kind = "Ingress"
    THEN [panic |-> FALSE,
          errs |-> DuplicatedFrom(
                     [i \in 1..Len(o.tls) |-> o.tls[i].secretName], 1)]
    ELSE validateGatewayListeners_r2(o.listeners)

----------------------------------------------------------------------------
(* certNeedsUpdate and setIssuerSpecificConfig.                            *)

\* the loop over a.Spec.DNSNames, for lists of equal length
DNSNamesDiffer(a, b) ==
    \E i \in 1..Len(a.dnsNames) : a.dnsNames[i] # b.dnsNames[i]

\* dnsNames compared as sets
certNeedsUpdate_unorderedNames(a, b) ==
    \/ a.name # b.name
    \/ a.labels # b.labels
    \/ a.commonName # b.commonName
    \/ Range(a.dnsNames) # Range(b.dnsNames)
    \/ a.secretName # b.secretName
    \/ a.issuerRef.name # b.issuerRef.name
    \/ a.issuerRef.kind # b.issuerRef.kind

certNeedsUpdate(a, b) ==
    IF a.name # b.name THEN TRUE
    ELSE IF a.labels # b.labels THEN TRUE
    ELSE IF a.commonName # b.commonName THEN TRUE
    ELSE IF Len(a.dnsNames) # Len(b.dnsNames) THEN TRUE
    ELSE IF DNSNamesDiffer(a, b) THEN TRUE
    ELSE IF a.secretName # b.secretName THEN TRUE
    ELSE IF a.issuerRef.name # b.issuerRef.name THEN TRUE
    ELSE IF a.issuerRef.kind # b.issuerRef.kind THEN TRUE
    ELSE FALSE

IngressEditInPlaceAnnotationKey == "acme.cert-manager.io/http01-edit-in-place"
ACMECertificateHTTP01IngressNameOverride == "acme.cert-manager.io/http01-override-ingress-name"
IssueTemporaryCertificateAnnotation == "cert-manager.io/issue-temporary-certificate"
IngressACMEIssuerHTTP01IngressClassAnnotationKey == "acme.cert-manager.io/http01-ingress-class"
ACMECertificateHTTP01IngressClassOverride == "acme.cert-manager.io/http01-override-ingress-class"

\* the map m with m[k] = v
MapSet(m, k, v) == [x \in DOMAIN m \cup {k} |-> IF x = k THEN v ELSE m[x]]

\* the annotations of crt after setIssuerSpecificConfig(crt, o)
setIssuerSpecificConfig(crtAnnotations, o) ==
    LET a == o.annotations
        editInPlace == IngressEditInPlaceAnnotationKey \in DOMAIN a
                       /\ a[IngressEditInPlaceAnnotationKey] = "true"
        a1 == IF editInPlace
              THEN MapSet(MapSet(crtAnnotations,
                                 ACMECertificateHTTP01IngressNameOverride, o.name),
                          IssueTemporaryCertificateAnnotation, "true")
              ELSE crtAnnotations
    IN  IF IngressACMEIssuerHTTP01IngressClassAnnotationKey \in DOMAIN a
        THEN MapSet(a1, ACMECertificateHTTP01IngressClassOverride,
                    a[IngressACMEIssuerHTTP01IngressClassAnnotationKey])
        ELSE a1

----------------------------------------------------------------------------
(* buildCertificates.                                                      *)

Event(type, reason, what, idx, name) ==
    [type |-> type, reason |-> reason, what |-> what, idx |-> idx, name |-> name]

\* the hostnames, in order, of the listeners i.. whose position is in
\* accepted and that name the secret
RECURSIVE HostsOf(_, _, _, _)
HostsOf(listeners, accepted, name, i) ==
    IF i > Len(listeners) THEN <<>>
    ELSE (IF i \in accepted /\ listeners[i].tls.certificateRef.name = name
          THEN <<listeners[i].hostname>> ELSE <<>>)
         \o HostsOf(listeners, accepted, name, i + 1)

ValidTLSBlock(b) == validateIngressTLSBlock(b) = <<>>
ValidListener(l) == validateGatewayListenerBlock(l) = <<>>

\* positions of the listeners that buildCertificates uses
ValidListeners(listeners) == {i \in 1..Len(listeners) : ValidListener(listeners[i])}
AllListeners(listeners) == 1..Len(listeners)

\* tlsHosts of an Ingress: secretName -> hosts of its (last) valid TLS block
IngressTLSHosts(o) ==
    LET valid == {i \in 1..Len(o.tls) : ValidTLSBlock(o.tls[i])}
        last(n) == CHOOSE i \in valid :
                      /\ o.tls[i].secretName = n
                      /\ \A j \in valid : o.tls[j].secretName = n => j <= i
    IN  [n \in {o.tls[i].secretName : i \in valid} |-> o.tls[last(n)].hosts]

\* tlsHosts of a Gateway: certificateRef.name -> hostnames of the accepted
\* listeners that name it, appended in listener order
GatewayTLSHosts(o, accepted) ==
    [n \in {o.listeners[i].tls.certificateRef.name : i \in accepted} |->
        HostsOf(o.listeners, accepted, n, 1)]

\* the Certificate built for one entry of tlsHosts (translateAnnotations
\* adds nothing for the annotations of this model)
DesiredCertificate(o, iss, name, hosts, crtAnnotations) ==
    [name |-> name,
     labels |-> o.labels,
     annotations |-> crtAnnotations,
     owner |-> NewControllerRef(o),
     commonName |-> "",
     dnsNames |-> hosts,
     secretName |-> name,
     issuerRef |-> [name |-> iss.name, kind |-> iss.kind, group |-> iss.group],
     usages |-> "default"]

\* updateCrt: the existing Certificate with crt's spec and labels
UpdatedCertificate(existing, crt, annotations) ==
    [existing EXCEPT !.labels = crt.labels,
                     !.annotations = annotations,
                     !.commonName = crt.commonName,
                     !.dnsNames = crt.dnsNames,
                     !.secretName = crt.secretName,
                     !.issuerRef = crt.issuerRef,
                     !.usages = crt.usages]

\* the loop over tlsHosts: [new, update], two sets of Certificates.
\* desired[n] is the Certificate built for the secret n, updAnn[existing]
\* the annotations updateCrt is written with.
CertificatesFor(store, o, desired, updAnn) ==
    LET names == DOMAIN desired
        absent == {n \in names : ListerGet(store, n) = {}}
        stale == {e \in store :
                    /\ e.name \in names
                    /\ ~HasNoController(e)
                    /\ IsControlledBy(e, o)
                    /\ certNeedsUpdate(e, desired[e.name])}
    IN  [new |-> {desired[n] : n \in absent},
         update |-> {UpdatedCertificate(e, desired[e.name], updAnn[e]) : e \in stale}]

\* first revision: [panic, err, events, new, update]
buildCertificates(store, o, iss) ==
    LET tlsHosts == IF o.kind = "Ingress" THEN IngressTLSHosts(o)
                    ELSE GatewayTLSHosts(o, ValidListeners(o.listeners))
        skipped == IF o.kind = "Ingress"
                   THEN {i \in 1..Len(o.tls) : ~ValidTLSBlock(o.tls[i])}
                   ELSE {i \in 1..Len(o.listeners) : ~ValidListener(o.listeners[i])}
        desired == [n \in DOMAIN tlsHosts |->
                       DesiredCertificate(o, iss, n, tlsHosts[n],
                           setIssuerSpecificConfig(NoAnnotations, o))]
        updAnn == [e \in store |-> e.annotations]
        c == CertificatesFor(store, o, desired, updAnn)
    IN  [panic |-> FALSE, err |-> FALSE,
         events |-> {Event(EventTypeWarning, reasonBadConfig, "block", i, "") :
                        i \in skipped},
         new |-> c.new, update |-> c.update]

\* second revision: [panic, err, events, new, update]
buildCertificates_r2(store, o, iss) ==
    IF o.kind = "Ingress"
    THEN LET tlsHosts == IngressTLSHosts(o)
             skipped == {i \in 1..Len(o.tls) : ~ValidTLSBlock(o.tls[i])}
             desired == [n \in DOMAIN tlsHosts |->
                            DesiredCertificate(o, iss, n, tlsHosts[n],
                                setIssuerSpecificConfig(NoAnnotations, o))]
             updAnn == [e \in store |-> setIssuerSpecificConfig(e.annotations, o)]
             c == CertificatesFor(store, o, desired, updAnn)
         IN  [panic |-> FALSE, err |-> FALSE,
              events |-> {Event(EventTypeWarning, reasonBadConfig, "block", i, "") :
                             i \in skipped},
              new |-> c.new, update |-> c.update]
    ELSE LET v == validateGatewayListeners_r2(o.listeners)
             tlsHosts == GatewayTLSHosts(o, AllListeners(o.listeners))
             desired == [n \in DOMAIN tlsHosts |->
                            DesiredCertificate(o, iss, n, tlsHosts[n], NoAnnotations)]
             updAnn == [e \in store |-> e.annotations]
             c == CertificatesFor(store, o, desired, updAnn)
         IN  IF v.panic THEN
                 [panic |-> TRUE, err |-> FALSE, events |-> {}, new |-> {}, update |-> {}]
             ELSE IF Len(v.errs) > 0 THEN
                 [panic |-> FALSE, err |-> TRUE,
                  events |-> {Event(EventTypeWarning, reasonBadConfig, "object", 0, "")},
                  new |-> {}, update |-> {}]
             ELSE IF \E i \in 1..Len(o.listeners) : o.listeners[i].hostname = NilString
             THEN [panic |-> TRUE, err |-> FALSE, events |-> {}, new |-> {}, update |-> {}]
             ELSE [panic |-> FALSE, err |-> FALSE, events |-> {},
                   new |-> c.new, update |-> c.update]

----------------------------------------------------------------------------
(* findUnrequiredCertificates / isUnrequiredCertificate.                   *)

\* the loop of isUnrequiredCertificate over the listeners i.. of a Gateway:
\* "required" when a listener names the secret, "panic" when a listener
\* without TLS block or certificateRef is reached first (l.TLS.CertificateRef
\* is dereferenced unchecked), "unrequired" at the end of the list
RECURSIVE ListenersRequire(_, _, _)
ListenersRequire(listeners, secretName, i) ==
    IF i > Len(listeners) THEN "unrequired"
    ELSE IF ~HasCertificateRef(listeners[i]) THEN "panic"
    ELSE IF listeners[i].tls.certificateRef.name = secretName THEN "required"
    ELSE ListenersRequire(listeners, secretName, i + 1)

\* isUnrequiredCertificate without its IsControlledBy guard
isUnrequiredCertificate_noOwnerCheck(crt, o) ==
    IF o.kind = "Ingress"
    THEN (IF \E i \in 1..Len(o.tls) : crt.secretName = o.tls[i].secretName
          THEN "no" ELSE "unrequired")
    ELSE LET r == ListenersRequire(o.listeners, crt.secretName, 1)
         IN  IF r = "required" THEN "no" ELSE r

\* "no" (not controlled, or still required), "unrequired" or "panic"
isUnrequiredCertificate(crt, o) ==
    IF ~IsControlledBy(crt, o) THEN "no"
    ELSE IF o.kind = "Ingress"
    THEN (IF \E i \in 1..Len(o.tls) : crt.secretName = o.tls[i].secretName
          THEN "no" ELSE "unrequired")
    ELSE LET r == ListenersRequire(o.listeners, crt.secretName, 1)
         IN  IF r = "required" THEN "no" ELSE r

\* [panic, unrequired] for the Certificates the lister returns
findUnrequiredCertificates(list, o) ==
    [panic |-> \E crt \in list : isUnrequiredCertificate(crt, o) = "panic",
     unrequired |-> {crt \in list : isUnrequiredCertificate(crt, o) = "unrequired"}]

----------------------------------------------------------------------------
(* SyncFnFor: every way one call of the sync function can go.              *)

NoRec ==
    [rev |-> "none", result |-> "none", apiFailed |-> FALSE, created |-> {},
     updated |-> {}, deleted |-> {}, events |-> {}, pre |-> {}, view |-> {},
     cache |-> {}, prev |-> [rev |-> "none", result |-> "none", apiFailed |-> FALSE]]

\* apiFailed: a Create, Update or Delete call returned an error
Outcome(result, apiFailed, events, created, updated, deleted, view, post) ==
    [result |-> result, apiFailed |-> apiFailed, events |-> events,
     created |-> created, updated |-> updated, deleted |-> deleted,
     view |-> view, post |-> post]

NamesOf(cs) == {c.name : c \in cs}

\* the store after the Creates and Updates that succeeded
Written(store, created, updated) ==
    {e \in store : e.name \notin NamesOf(updated)} \cup created \cup updated

ApiEvents(created, updated, deleted) ==
    {Event(EventTypeNormal, reasonCreateCertificate, "cert", 0, c.name) : c \in created}
    \cup {Event(EventTypeNormal, reasonUpdateCertificate, "cert", 0, c.name) : c \in updated}
    \cup {Event(EventTypeNormal, reasonDeleteCertificate, "cert", 0, n) : n \in deleted}

\* The Create and Update loops return at the first call that fails; the
\* order of the loops is the iteration order of a Go map, so any proper
\* subset of the calls can have been made before the failing one.
WriteOutcomes(store, b) ==
    {Outcome("err", TRUE, b.events \cup ApiEvents(cr, {}, {}), cr, {}, {}, store,
             Written(store, cr, {})) : cr \in (SUBSET b.new) \ {b.new}}
    \cup
    {Outcome("err", TRUE, b.events \cup ApiEvents(b.new, up, {}), b.new, up, {}, store,
             Written(store, b.new, up)) : up \in (SUBSET b.update) \ {b.update}}

\* After the writes the lister is listed again; its cache has seen the
\* writes of this call (view = the written store) or not yet (view = store).
DeleteOutcomes(store, o, b) ==
    LET post == Written(store, b.new, b.update)
        gc(view) ==
            LET f == findUnrequiredCertificates(view, o)
                all == NamesOf(f.unrequired)
            IN  IF f.panic
                THEN {Outcome("panic", FALSE,
                              b.events \cup ApiEvents(b.new, b.update, {}),
                              b.new, b.update, {}, view, post)}
                ELSE {Outcome(IF de = all THEN "nil" ELSE "err", de # all,
                              b.events \cup ApiEvents(b.new, b.update, de),
                              b.new, b.update, de, view,
                              {e \in post : e.name \notin de}) : de \in SUBSET all}
    IN  gc(store) \cup gc(post)

Quiet(result, events, store) ==
    {Outcome(result, FALSE, events, {}, {}, {}, store, store)}

BadConfigEvent(what) == {Event(EventTypeWarning, reasonBadConfig, what, 0, "")}

\* first revision (sync.go, validateIngressLike)
SyncFnFor(o, d, store) ==
    LET iss == issuerForIngressLike(d, o)
        b == buildCertificates(store, o, iss)
    IN  IF ~hasShimAnnotation(o, d.DefaultAutoCertificateAnnotations)
        THEN Quiet("nil", {}, store)
        ELSE IF iss.errs > 0 THEN Quiet("nil", BadConfigEvent("issuer"), store)
        ELSE IF Len(validateIngressLike(o)) > 0
        THEN Quiet("nil", BadConfigEvent("object"), store)
        ELSE WriteOutcomes(store, b) \cup DeleteOutcomes(store, o, b)

\* second revision (sync.go, validateIngress)
SyncFnFor_r2(o, d, store) ==
    LET iss == issuerForIngressLike(d, o)
        v == validateIngress(o)
        b == buildCertificates_r2(store, o, iss)
    IN  IF ~hasShimAnnotation(o, d.DefaultAutoCertificateAnnotations)
        THEN Quiet("nil", {}, store)
        ELSE IF iss.errs > 0 THEN Quiet("nil", BadConfigEvent("issuer"), store)
        ELSE IF v.panic THEN Quiet("panic", {}, store)
        ELSE IF Len(v.errs) > 0 THEN Quiet("nil", BadConfigEvent("object"), store)
        ELSE IF b.panic THEN Quiet("panic", {}, store)
        ELSE IF b.err THEN Quiet("err", b.events, store)
        ELSE WriteOutcomes(store, b) \cup DeleteOutcomes(store, o, b)

----------------------------------------------------------------------------
(* The certificate-shim world: objects, Certificates, and the two          *)
(* revisions of the sync function acting on them.                          *)

SecretNames == {"s1", "s2"}

HostOf(n) == IF n = "s1" THEN "a.example" ELSE "b.example"

OtherName(n) == IF n = "s1" THEN "s2" ELSE "s1"

\* spec.tls entries of an Ingress
TLSBlocks ==
    {[secretName |-> "s1", hosts |-> <<"a.example">>],
     [secretName |-> "s2", hosts |-> <<"b.example">>],
     [secretName |-> "s1", hosts |-> <<>>],
     [secretName |-> "", hosts |-> <<"a.example">>]}

Listener(hostname, hasTLS, group, kind, name) ==
    [hostname |-> hostname,
     tls |-> [present |-> hasTLS,
              certificateRef |-> [present |-> hasTLS, group |-> group,
                                  kind |-> kind, name |-> name],
              mode |-> IF hasTLS THEN "Terminate" ELSE NilString]]

\* spec.listeners entries of a Gateway
Listeners ==
    {Listener("a.example", TRUE, "core", "Secret", "s1"),
     Listener("b.example", TRUE, "core", "Secret", "s2"),
     Listener("a.example", FALSE, "", "", ""),
     Listener("b.example", TRUE, "example.io", "Secret", "s2"),
     Listener("a.example", TRUE, "core", "ConfigMap", "s1")}

AnnotationSets ==
    {NoAnnotations,
     [k \in {IngressIssuerNameAnnotationKey} |-> "ca"],
     [k \in {TLSACMEAnnotationKey} |-> "true"]}

DefaultsSet ==
    {[DefaultIssuerName |-> "", DefaultIssuerKind |-> IssuerKind,
      DefaultIssuerGroup |-> "cert-manager.io",
      DefaultAutoCertificateAnnotations |-> {TLSACMEAnnotationKey}]}

Object(kind, annotations, entries) ==
    [kind |-> kind, name |-> "o1", uid |-> "uid-o1",
     annotations |-> annotations, labels |-> NilLabels,
     tls |-> IF kind = "Ingress" THEN entries ELSE <<>>,
     listeners |-> IF kind = "Gateway" THEN entries ELSE <<>>]

Objects ==
    {Object("Ingress", a, t) : a \in AnnotationSets, t \in SeqsUpTo(TLSBlocks, MaxTLS)}
    \cup
    {Object("Gateway", a, l) : a \in AnnotationSets, l \in SeqsUpTo(Listeners, MaxTLS)}

OtherOwner == [kind |-> "Ingress", name |-> "o2", uid |-> "uid-o2"]

Certificate(n, owner, secretName, dnsNames) ==
    [name |-> n, labels |-> NilLabels, annotations |-> NoAnnotations,
     owner |-> owner, commonName |-> "", dnsNames |-> dnsNames,
     secretName |-> secretName,
     issuerRef |-> [name |-> "ca", kind |-> IssuerKind, group |-> "cert-manager.io"],
     usages |-> "default"]

\* the Certificates named n that the namespace of o can hold
CertificatesNamed(n, o) ==
    {Certificate(n, NewControllerRef(o), n, <<HostOf(n)>>),
     Certificate(n, NewControllerRef(o), n, <<"old.example">>),
     Certificate(n, NewControllerRef(o), OtherName(n), <<HostOf(n)>>),
     Certificate(n, NoOwner, n, <<HostOf(n)>>),
     Certificate(n, OtherOwner, n, <<HostOf(n)>>)}

\* at most one Certificate per name
Stores(o) ==
    {c1 \cup c2 :
        c1 \in {{}} \cup {{c} : c \in CertificatesNamed("s1", o)},
        c2 \in {{}} \cup {{c} : c \in CertificatesNamed("s2", o)}}

InitSync ==
    /\ ingLike \in Objects
    /\ defaults \in DefaultsSet
    /\ crts \in Stores(ingLike)
    /\ rec = NoRec
    /\ ShimIdle
    /\ PureIdle
    /\ ToolIdle

\* updateCrt := existingCrt assigned without DeepCopy: the writes to
\* updateCrt land in the object the lister holds
CachedAfterUpdate_inPlace(existingCrt, updateCrt) == updateCrt

\* updateCrt := existingCrt.DeepCopy(): the object the lister holds after
\* updateCrt's Spec, Labels and Annotations were written
CachedAfterUpdate(existingCrt, updateCrt) == existingCrt

\* the updateCrts that buildCertificates assembled in a call of the sync
\* function, {} when the call returned before buildCertificates
BuiltUpdates(rev, o, d, store) ==
    LET iss == issuerForIngressLike(d, o)
        v == validateIngress(o)
    IN  IF ~hasShimAnnotation(o, d.DefaultAutoCertificateAnnotations) THEN {}
        ELSE IF iss.errs > 0 THEN {}
        ELSE IF rev = "r1"
        THEN (IF Len(validateIngressLike(o)) > 0 THEN {}
              ELSE buildCertificates(store, o, iss).update)
        ELSE (IF v.panic \/ Len(v.errs) > 0 THEN {}
              ELSE buildCertificates_r2(store, o, iss).update)

\* the objects of the lister's cache when the call returns, before the
\* informer delivers any change made by the call
CacheAfter(store, updateCrts) ==
    {IF \E u \in updateCrts : u.name = e.name
     THEN CachedAfterUpdate(e, CHOOSE u \in updateCrts : u.name = e.name)
     ELSE e : e \in store}

Synced(rev, out) ==
    /\ rec' = [rev |-> rev, result |-> out.result,
               apiFailed |-> out.apiFailed, created |-> out.created,
               updated |-> out.updated, deleted |-> out.deleted,
               events |-> out.events, pre |-> crts, view |-> out.view,
               cache |-> CacheAfter(crts,
                            BuiltUpdates(rev, ingLike, defaults, crts)),
               prev |-> [rev |-> rec.rev, result |-> rec.result,
                         apiFailed |-> rec.apiFailed]]
    /\ crts' = out.post
    /\ UNCHANGED <<ingLike, defaults>>
    /\ UNCHANGED shimVars
    /\ UNCHANGED pureVars
    /\ UNCHANGED toolVars

\* one call of the sync function of the first revision
Sync ==
    \E out \in SyncFnFor(ingLike, defaults, crts) : Synced("r1", out)

\* one call of the sync function of the second revision
Sync_r2 ==
    \E out \in SyncFnFor_r2(ingLike, defaults, crts) : Synced("r2", out)

NextSync == Sync \/ Sync_r2

SpecSync == InitSync /\ [][NextSync]_vars

----------------------------------------------------------------------------
(* Properties of the sync function (specification SpecSync).               *)

SyncRan == rec.rev # "none"

Annotated == hasShimAnnotation(ingLike, defaults.DefaultAutoCertificateAnnotations)

IssuerResolved == issuerForIngressLike(defaults, ingLike).errs = 0

\* c carries no controller reference, or that of another object
NotControlledByObject(c) == c.owner = NoOwner \/ c.owner.uid # ingLike.uid

\* the secretNames / certificateRef names of the entries that pass the
\* per-entry validation
ValidTargetNames ==
    IF ingLike.kind = "Ingress"
    THEN {ingLike.tls[i].secretName :
            i \in {j \in 1..Len(ingLike.tls) : ValidTLSBlock(ingLike.tls[j])}}
    ELSE {ingLike.listeners[i].tls.certificateRef.name :
            i \in {j \in 1..Len(ingLike.listeners) : ValidListener(ingLike.listeners[j])}}

\* C1: a sync never updates, deletes or replaces a Certificate that the
\* synced object does not control; such a Certificate is still in the
\* namespace, unchanged, after the sync.
C1_OwnershipSafety ==
    SyncRan =>
        \A c \in rec.pre :
            NotControlledByObject(c) =>
                /\ c \in crts
                /\ c.name \notin NamesOf(rec.updated)
                /\ c.name \notin rec.deleted
                /\ c.name \notin NamesOf(rec.created)

\* a sync that created a Certificate while a Certificate it does not control
\* carried the name of one of the object's valid TLS targets
C1_Witness ==
    /\ SyncRan
    /\ rec.result = "nil"
    /\ rec.created # {}
    /\ \E c \in rec.pre : NotControlledByObject(c) /\ c.name \in ValidTargetNames

DuplicateSecretName ==
    \E i, j \in 1..Len(ingLike.tls) :
        i # j /\ ingLike.tls[i].secretName = ingLike.tls[j].secretName

\* C2: the sync of an annotated Ingress with two TLS blocks of the same
\* secretName issues no Create, Update or Delete, leaves the Certificates
\* as they were, records a BadConfig warning event and returns nil.
C2_DuplicateSecretNameRejected ==
    (SyncRan /\ ingLike.kind = "Ingress" /\ Annotated /\ DuplicateSecretName) =>
        /\ rec.created = {} /\ rec.updated = {} /\ rec.deleted = {}
        /\ crts = rec.pre
        /\ rec.result = "nil"
        /\ \E e \in rec.events :
              e.type = EventTypeWarning /\ e.reason = reasonBadConfig

\* such a sync of an Ingress that also has a valid TLS block with another
\* secretName, whose Certificate does not exist yet
C2_Witness ==
    /\ SyncRan /\ ingLike.kind = "Ingress" /\ Annotated /\ IssuerResolved
    /\ DuplicateSecretName
    /\ \E i \in 1..Len(ingLike.tls) :
          /\ ValidTLSBlock(ingLike.tls[i])
          /\ CountIn([k \in 1..Len(ingLike.tls) |-> ingLike.tls[k].secretName],
                     ingLike.tls[i].secretName) = 1
          /\ ListerGet(rec.pre, ingLike.tls[i].secretName) = {}

ListenerWithoutTLSOrWrongRef(l) ==
    \/ ~l.tls.present
    \/ /\ l.tls.certificateRef.present
       /\ (l.tls.certificateRef.group # "core" \/ l.tls.certificateRef.kind # "Secret")

\* the hostnames of the valid listeners that name secret n
ValidHostsOf(n) == HostsOf(ingLike.listeners, ValidListeners(ingLike.listeners), n, 1)

\* C3: for an annotated Gateway with a valid listener and a listener that
\* misses its TLS block or has a certificateRef of another group or kind
\* (and no certificateRef name used twice), a sync does not panic, fails
\* only if an API call fails, records a warning for each invalid listener,
\* and leaves a Certificate for each valid listener that, if the Gateway
\* controls it, has the listener's hostnames.
C3_InvalidListenerRejectedAlone ==
    (/\ SyncRan /\ ingLike.kind = "Gateway" /\ Annotated /\ IssuerResolved
     /\ validateGatewayListeners(ingLike.listeners) = <<>>
     /\ \E i \in 1..Len(ingLike.listeners) : ValidListener(ingLike.listeners[i])
     /\ \E i \in 1..Len(ingLike.listeners) :
           ListenerWithoutTLSOrWrongRef(ingLike.listeners[i]))
    =>
        /\ rec.result # "panic"
        /\ ~rec.apiFailed =>
              /\ rec.result = "nil"
              /\ \A i \in 1..Len(ingLike.listeners) :
                    ~ValidListener(ingLike.listeners[i]) =>
                        Event(EventTypeWarning, reasonBadConfig, "block", i, "")
                            \in rec.events
              /\ \A n \in ValidTargetNames :
                    /\ ListerGet(crts, n) # {}
                    /\ \A c \in ListerGet(crts, n) :
                          ~NotControlledByObject(c) =>
                              c.secretName = n /\ c.dnsNames = ValidHostsOf(n)

\* the secretNames of all TLS blocks / the certificateRef names of all
\* listeners that have one
ReferencedNames ==
    IF ingLike.kind = "Ingress"
    THEN {ingLike.tls[i].secretName : i \in 1..Len(ingLike.tls)}
    ELSE {ingLike.listeners[i].tls.certificateRef.name :
            i \in {j \in 1..Len(ingLike.listeners) :
                      HasCertificateRef(ingLike.listeners[j])}}

\* the object passed the validation of the revision that synced it
ObjectValid ==
    IF rec.rev = "r1" THEN validateIngressLike(ingLike) = <<>>
    ELSE validateIngress(ingLike) = [panic |-> FALSE, errs |-> <<>>]

\* C4: after a sync of an annotated, valid object in which every API call
\* succeeded, the Certificates deleted are exactly the listed Certificates
\* that the object controls and whose secretName none of its TLS blocks or
\* listeners names.
C4_DeletesExactlyUnrequired ==
    (SyncRan /\ Annotated /\ IssuerResolved /\ ObjectValid /\ ~rec.apiFailed) =>
        rec.deleted =
            NamesOf({c \in rec.view :
                        ~NotControlledByObject(c) /\ c.secretName \notin ReferencedNames})

----------------------------------------------------------------------------
(* The shim controllers: Register, the Certificate event handler and       *)
(* ProcessItem.  The source tree holds five controller sources:            *)
(*   "gateways"      gateways/controller.go, package gateways (1-158)       *)
(*   "part_003"      unnamed/part_003, gateway-shim                         *)
(*   "part_002"      unnamed/part_002, gateway-shim                         *)
(*   "ingresses"     gateways/controller.go, package ingresses (160-293)    *)
(*   "ingresses_r2"  gateways/controller.go, package ingresses (295-443)    *)

Controllers == {"gateways", "part_003", "part_002", "ingresses", "ingresses_r2"}

ControllerName(c) ==
    IF c \in {"gateways", "part_003", "part_002"} THEN "gateway-shim" ELSE "ingress-shim"

\* the kind of the objects in the controller's lister
ListerKind(c) == IF ControllerName(c) = "gateway-shim" THEN "Gateway" ELSE "Ingress"

Namespace == "ns"

\* strings.Split(s, "/") on the strings of this model
SplitSlash(s) == IF s = "bad/name" THEN <<"bad", "name">> ELSE <<s>>

\* a queue key is the string namespace + "/" + name, held as its
\* "/"-separated segments
KeyOf(namespace, name) == SplitSlash(namespace) \o SplitSlash(name)

\* cache.SplitMetaNamespaceKey
SplitMetaNamespaceKey(key) ==
    IF Len(key) = 1 THEN [err |-> FALSE, namespace |-> "", name |-> key[1]]
    ELSE IF Len(key) = 2 THEN [err |-> FALSE, namespace |-> key[1], name |-> key[2]]
    ELSE [err |-> TRUE, namespace |-> "", name |-> ""]

\* the body shared by the Certificate handlers: the keys handed to queue.Add
OwnerKeyIfKind(crt, kind) ==
    IF HasNoController(crt) THEN {}
    ELSE IF crt.owner.kind # kind THEN {}
    ELSE {KeyOf(Namespace, crt.owner.name)}

certificateDeleted(crt) == OwnerKeyIfKind(crt, "Gateway")

certificateDeleted_part003(crt) == OwnerKeyIfKind(crt, "Ingress")

certificateDeleted_part002(crt) == OwnerKeyIfKind(crt, "Gateway")

certificateDeleted_ingresses(crt) == OwnerKeyIfKind(crt, "Ingress")

certificateHandler(crt) == OwnerKeyIfKind(crt, "Ingress")

\* BlockingEventHandler{WorkFunc: ...} of the running controller
WorkFunc(c, crt) ==
    IF c = "gateways" THEN certificateDeleted(crt)
    ELSE IF c = "part_003" THEN certificateDeleted_part003(crt)
    ELSE IF c = "part_002" THEN certificateDeleted_part002(crt)
    ELSE IF c = "ingresses" THEN certificateDeleted_ingresses(crt)
    ELSE certificateHandler(crt)

Registered == [state |-> "ok", queue |-> TRUE, handlers |-> {"object", "certificate"}]

RegisterFailed == [state |-> "failed", queue |-> FALSE, handlers |-> {}]

\* gateways/controller.go: discovery through ctx.Client.Discovery()
Register_gateways(d) ==
    IF d.err THEN RegisterFailed
    ELSE IF Len(d.APIResources) = 0 THEN RegisterFailed
    ELSE Registered

\* unnamed/part_003: the discovery client is built from ctx.RESTConfig first
Register_part003(d) ==
    IF d.restConfigErr THEN RegisterFailed
    ELSE IF d.err THEN RegisterFailed
    ELSE IF Len(d.APIResources) = 0 THEN RegisterFailed
    ELSE Registered

\* unnamed/part_002: no discovery
Register_part002(d) == Registered

\* the ingress-shim controllers: no discovery
Register_ingresses(d) == Registered

RegisterOf(c, d) ==
    IF c = "gateways" THEN Register_gateways(d)
    ELSE IF c = "part_003" THEN Register_part003(d)
    ELSE IF c = "part_002" THEN Register_part002(d)
    ELSE Register_ingresses(d)

----------------------------------------------------------------------------
(* The rate-limited work queue and the worker loop.  They are code of the  *)
(* controller framework (pkg/controller and the vendored client-go         *)
(* workqueue), not part of the sources at hand; they follow the design     *)
(* document, sections 4.5 and 5:                                           *)
(* a key is present at most once, a key added while it is processed is     *)
(* deferred until Done, an error re-adds the key rate-limited, success     *)
(* forgets its back-off.                                                   *)

MaxRequeues == 2

QueueAdd_noDeferral(q, k) ==
    IF k \in q.dirty THEN q
    ELSE [q EXCEPT !.dirty = @ \cup {k}, !.queue = Append(@, k)]

QueueAdd(q, k) ==
    IF k \in q.dirty THEN q
    ELSE IF k \in q.processing THEN [q EXCEPT !.dirty = @ \cup {k}]
    ELSE [q EXCEPT !.dirty = @ \cup {k}, !.queue = Append(@, k)]

RECURSIVE QueueAddAll(_, _)
QueueAddAll(q, keys) ==
    IF keys = {} THEN q
    ELSE LET k == CHOOSE x \in keys : TRUE
         IN  QueueAddAll(QueueAdd(q, k), keys \ {k})

QueueGet(q) ==
    [queue |-> Tail(q.queue),
     dirty |-> q.dirty \ {Head(q.queue)},
     processing |-> q.processing \cup {Head(q.queue)}]

QueueDone(q, k) ==
    IF k \in q.dirty
    THEN [q EXCEPT !.processing = @ \ {k}, !.queue = Append(@, k)]
    ELSE [q EXCEPT !.processing = @ \ {k}]

NumRequeues(l, k) == IF k \in DOMAIN l.requeues THEN l.requeues[k] ELSE 0

\* queue.AddRateLimited: the key is added once its back-off has elapsed
AddRateLimited(l, k) ==
    [delayed |-> l.delayed \cup {k},
     requeues |-> [x \in DOMAIN l.requeues \cup {k} |->
                      IF x = k THEN NumRequeues(l, k) + 1 ELSE l.requeues[x]]]

\* queue.Forget
Forget(l, k) ==
    [l EXCEPT !.requeues = [x \in DOMAIN @ \ {k} |-> @[x]]]

----------------------------------------------------------------------------
(* ProcessItem.  Its outcomes are records                                  *)
(*   [lookup, sync, ret, post, touched]                                    *)
(* lookup: how far the lookup got; sync: what c.sync returned; ret: what   *)
(* ProcessItem returns; post: the Certificates afterwards; touched: the    *)
(* Certificates c.sync created, updated or deleted.                        *)

ProcReturn_errOnNotFound(lookup, syncResult) ==
    IF lookup = "malformed" THEN "nil"
    ELSE IF lookup = "notfound" THEN "err"
    ELSE IF lookup = "error" THEN "err"
    ELSE syncResult

\* the value ProcessItem returns on each of its paths
ProcReturn(lookup, syncResult) ==
    IF lookup = "malformed" THEN "nil"
    ELSE IF lookup = "notfound" THEN "nil"
    ELSE IF lookup = "error" THEN "err"
    ELSE syncResult

\* what the lister's Get(name) can answer; a failure other than NotFound
\* is possible whatever the cache holds
ListerAnswers(split, o, exists) ==
    (IF exists /\ split.namespace = Namespace /\ split.name = o.name
     THEN {"found"} ELSE {"notfound"}) \cup {"error"}

ProcessItem(key, o, exists, d, store) ==
    LET split == SplitMetaNamespaceKey(key)
        quiet(lookup) == [lookup |-> lookup, sync |-> "none",
                          ret |-> ProcReturn(lookup, "none"),
                          post |-> store, touched |-> {}]
    IN  IF split.err THEN {quiet("malformed")}
        ELSE UNION {
            IF a # "found" THEN {quiet(a)}
            ELSE {[lookup |-> "found", sync |-> out.result,
                   ret |-> ProcReturn("found", out.result),
                   post |-> out.post,
                   touched |-> out.created \cup out.updated
                               \cup {c \in store : c.name \in out.deleted}] :
                      out \in SyncFnFor(o, d, store) \cup SyncFnFor_r2(o, d, store)}
            : a \in ListerAnswers(split, o, exists)}

----------------------------------------------------------------------------
(* A running shim controller: one object "o1" of the controller's kind,    *)
(* the Certificates of its namespace, two workers.                         *)

DiscoveryAnswers(c) ==
    IF ControllerName(c) = "ingress-shim"
    THEN {[err |-> FALSE, APIResources |-> <<>>, restConfigErr |-> FALSE]}
    ELSE {[err |-> e, APIResources |-> r, restConfigErr |-> x] :
             e \in BOOLEAN, r \in {<<>>, <<"gateways">>},
             x \in (IF c = "part_003" THEN BOOLEAN ELSE {FALSE})}
         \ {[err |-> TRUE, APIResources |-> <<"gateways">>, restConfigErr |-> x] :
             x \in BOOLEAN}

ShimObject(c) ==
    Object(ListerKind(c), [k \in {IngressIssuerNameAnnotationKey} |-> "ca"],
           IF ListerKind(c) = "Ingress"
           THEN <<[secretName |-> "s1", hosts |-> <<HostOf("s1")>>]>>
           ELSE <<Listener(HostOf("s1"), TRUE, "core", "Secret", "s1")>>)

OtherShimKind(c) == IF ListerKind(c) = "Gateway" THEN "Ingress" ELSE "Gateway"

\* Certificates of the namespace that other parties created
ForeignCertificates(c) ==
    {Certificate("f1", [kind |-> OtherShimKind(c), name |-> "o5", uid |-> "uid-o5"],
                 "f1", <<"f1.example">>),
     Certificate("f2", NoOwner, "f2", <<"f2.example">>),
     Certificate("f3", [kind |-> ListerKind(c), name |-> "bad/name", uid |-> "uid-o6"],
                 "f3", <<"f3.example">>)}

InitShim ==
    /\ ctrl \in Controllers
    /\ discovery \in DiscoveryAnswers(ctrl)
    /\ ingLike = ShimObject(ctrl)
    /\ defaults \in DefaultsSet
    /\ crts = ForeignCertificates(ctrl)
    /\ rec = NoRec
    /\ reg = [state |-> "init", queue |-> FALSE, handlers |-> {}]
    /\ objExists \in BOOLEAN
    /\ wq = [queue |-> <<>>, dirty |-> {}, processing |-> {}]
    /\ limiter = [delayed |-> {}, requeues |-> <<>>]
    /\ busy = [w \in Workers |-> NoKey]
    /\ lastProc = NoProc
    /\ lastEv = NoEvent
    /\ PureIdle
    /\ ToolIdle

Register ==
    /\ reg.state = "init"
    /\ reg' = RegisterOf(ctrl, discovery)
    /\ UNCHANGED <<ingLike, defaults, crts, rec, ctrl, discovery, objExists,
                   wq, limiter, busy, lastProc, lastEv>>
    /\ UNCHANGED pureVars
    /\ UNCHANGED toolVars

\* QueuingEventHandler: an add, update or delete of the object queues its key
ObjectEvent ==
    /\ "object" \in reg.handlers
    /\ \E e \in {"add", "update", "delete"} :
          /\ objExists = (e # "add")
          /\ objExists' = (e # "delete")
    /\ wq' = QueueAdd(wq, KeyOf(Namespace, ingLike.name))
    /\ UNCHANGED <<ingLike, defaults, crts, rec, ctrl, discovery, reg,
                   limiter, busy, lastProc, lastEv>>
    /\ UNCHANGED pureVars
    /\ UNCHANGED toolVars

\* somebody deletes a Certificate; BlockingEventHandler runs the WorkFunc
CertificateDeleted ==
    /\ "certificate" \in reg.handlers
    /\ \E c \in crts :
          /\ crts' = crts \ {c}
          /\ wq' = QueueAddAll(wq, WorkFunc(ctrl, c))
          /\ lastEv' = [seen |-> TRUE,
                        owner |-> [kind |-> c.owner.kind,
                                   name |-> SplitSlash(c.owner.name)],
                        added |-> WorkFunc(ctrl, c)]
    /\ UNCHANGED <<ingLike, defaults, rec, ctrl, discovery, reg, objExists,
                   limiter, busy, lastProc>>
    /\ UNCHANGED pureVars
    /\ UNCHANGED toolVars

\* a worker takes the next key off the queue
WorkerGet ==
    /\ reg.queue
    /\ wq.queue # <<>>
    /\ \E w \in Workers :
          /\ busy[w] = NoKey
          /\ busy' = [busy EXCEPT ![w] = Head(wq.queue)]
    /\ wq' = QueueGet(wq)
    /\ UNCHANGED <<ingLike, defaults, crts, rec, ctrl, discovery, reg, objExists,
                   limiter, lastProc, lastEv>>
    /\ UNCHANGED pureVars
    /\ UNCHANGED toolVars

\* the worker runs ProcessItem on its key; the Certificates that the sync
\* wrote reach the Certificate handler; then the key is re-added
\* rate-limited (error) or forgotten (nil), and marked Done
WorkerProcess ==
    \E w \in Workers :
        /\ busy[w] # NoKey
        /\ \E out \in ProcessItem(busy[w], ingLike, objExists, defaults, crts) :
              /\ out.ret \in {"nil", "err"}
              /\ out.ret = "err" => NumRequeues(limiter, busy[w]) < MaxRequeues
              /\ crts' = out.post
              /\ limiter' = IF out.ret = "err"
                            THEN AddRateLimited(limiter, busy[w])
                            ELSE Forget(limiter, busy[w])
              /\ wq' = QueueDone(
                          QueueAddAll(wq, UNION {WorkFunc(ctrl, c) : c \in out.touched}),
                          busy[w])
              /\ lastProc' = [key |-> busy[w], lookup |-> out.lookup,
                              sync |-> out.sync, ret |-> out.ret]
        /\ busy' = [busy EXCEPT ![w] = NoKey]
        /\ UNCHANGED <<ingLike, defaults, rec, ctrl, discovery, reg, objExists, lastEv>>
        /\ UNCHANGED pureVars
        /\ UNCHANGED toolVars

\* the back-off of a re-added key elapses
RateLimitElapsed ==
    /\ \E k \in limiter.delayed :
          /\ limiter' = [limiter EXCEPT !.delayed = @ \ {k}]
          /\ wq' = QueueAdd(wq, k)
    /\ UNCHANGED <<ingLike, defaults, crts, rec, ctrl, discovery, reg, objExists,
                   busy, lastProc, lastEv>>
    /\ UNCHANGED pureVars
    /\ UNCHANGED toolVars

NextShim ==
    \/ Register
    \/ ObjectEvent
    \/ CertificateDeleted
    \/ WorkerGet
    \/ WorkerProcess
    \/ RateLimitElapsed

SpecShim == InitShim /\ [][NextShim]_vars

----------------------------------------------------------------------------
(* Properties of the shim controllers.                                     *)

\* C5: the deletion of a Certificate whose controller owner has the kind
\* of the running shim (Ingress for ingress-shim, Gateway for gateway-shim)
\* adds the key "<namespace>/<owner name>" to the queue; the deletion of a
\* Certificate without controller owner, or with an owner of another kind,
\* adds no key.
C5_DeletionQueuesOwner ==
    lastEv.seen =>
        lastEv.added = IF lastEv.owner.kind = ListerKind(ctrl)
                       THEN {SplitSlash(Namespace) \o lastEv.owner.name}
                       ELSE {}

\* C7: Register of gateway-shim returns an error, no queue and registers no
\* handler whenever discovery fails or reports zero resources; it returns
\* a queue only when at least one resource was discovered.
C7_RegisterRequiresDiscovery ==
    (ControllerName(ctrl) = "gateway-shim" /\ reg.state # "init") =>
        /\ (discovery.err \/ Len(discovery.APIResources) = 0) =>
               (reg.state = "failed" /\ ~reg.queue /\ reg.handlers = {})
        /\ reg.queue => (~discovery.err /\ Len(discovery.APIResources) >= 1)

KeyAddedWhileProcessed(k) == k \in wq.processing /\ k \in wq.dirty

\* C8: no two workers run ProcessItem for the same key at the same time; a
\* key added while it is processed is neither lost nor handed to another
\* worker, and is back in the queue once the processing ends.
C8_KeySerialized ==
    /\ [](\A w1, w2 \in Workers :
             (w1 # w2 /\ busy[w1] # NoKey) => busy[w1] # busy[w2])
    /\ [](\A k \in wq.dirty : CountIn(wq.queue, k) = 1 \/ k \in wq.processing)
    /\ [][\A k \in wq.processing :
             (KeyAddedWhileProcessed(k) /\ k \notin wq'.processing)
                 => (CountIn(wq'.queue, k) = 1 /\ k \in wq'.dirty)]_vars

\* a key was added while a worker processes it, and the other worker is idle
C8_Witness ==
    \E w1, w2 \in Workers :
        /\ busy[w1] # NoKey
        /\ KeyAddedWhileProcessed(busy[w1])
        /\ busy[w2] = NoKey
        /\ lastProc.key = busy[w1]

\* C9: ProcessItem returns nil for a malformed key and for an object that
\* is not in the lister, the lister's error for any other lookup failure,
\* and otherwise exactly what the sync function returned; a key whose
\* ProcessItem returned an error is queued again, however often it failed.
C9_ProcessItemResult ==
    lastProc.key # NoKey =>
        /\ (Len(lastProc.key) > 2) = (lastProc.lookup = "malformed")
        /\ lastProc.lookup \in {"malformed", "notfound"} => lastProc.ret = "nil"
        /\ lastProc.lookup = "error" => lastProc.ret = "err"
        /\ lastProc.lookup = "found" =>
               (lastProc.sync \in {"nil", "err"} /\ lastProc.ret = lastProc.sync)
        /\ lastProc.lookup # "found" => lastProc.sync = "none"
        /\ lastProc.ret = "err" =>
               \/ lastProc.key \in limiter.delayed
               \/ lastProc.key \in wq.dirty
               \/ lastProc.key \in wq.processing

\* the sync of a key failed again after MaxRequeues - 1 failed attempts,
\* and the key waits for its next attempt
C9_Witness ==
    /\ lastProc.lookup = "found"
    /\ lastProc.ret = "err"
    /\ NumRequeues(limiter, lastProc.key) = MaxRequeues
    /\ lastProc.key \in limiter.delayed

----------------------------------------------------------------------------
(* certNeedsUpdate on pairs of Certificates.                               *)

MaxDNSNames == 2

DNSNameLists == SeqsUpTo({"a.example", "b.example"}, MaxDNSNames)

LabelSets == {NilLabels, EmptyLabels, [isNil |-> FALSE, kv |-> {<<"app", "web">>}]}

\* the Certificate a sync built
BuiltCertificates ==
    {[Certificate("s1", NoOwner, "s1", d) EXCEPT !.labels = l] :
        d \in DNSNameLists, l \in LabelSets}

\* the Certificate the lister holds
ListedCertificates ==
    {[name |-> n, labels |-> l, annotations |-> an, owner |-> NoOwner,
      commonName |-> cn, dnsNames |-> d, secretName |-> sn,
      issuerRef |-> [name |-> iname, kind |-> ikind, group |-> "cert-manager.io"],
      usages |-> u] :
        n \in {"s1", "s2"}, l \in LabelSets, cn \in {"", "a.example"},
        d \in DNSNameLists, sn \in {"s1", "s2"}, iname \in {"ca", "other-ca"},
        ikind \in {IssuerKind, ClusterIssuerKind}, u \in {"default", "client auth"},
        an \in {NoAnnotations, [k \in {IngressEditInPlaceAnnotationKey} |-> "true"]}}

InitCompare ==
    /\ cmp \in {[a |-> a, b |-> b, result |-> "unset"] :
                   a \in BuiltCertificates, b \in ListedCertificates}
    /\ vault = [ready |-> "unset"]
    /\ MiscIdle
    /\ SyncIdle
    /\ ShimIdle
    /\ ToolIdle

Compare ==
    /\ cmp.result = "unset"
    /\ cmp' = [cmp EXCEPT !.result =
                  IF certNeedsUpdate(cmp.a, cmp.b) THEN "true" ELSE "false"]
    /\ UNCHANGED <<ingLike, defaults, crts, rec, vault>>
    /\ UNCHANGED shimVars
    /\ UNCHANGED toolVars
    /\ UNCHANGED miscVars

SpecCompare == InitCompare /\ [][Compare]_vars

\* C6: certNeedsUpdate(a, b) is true exactly when a and b differ in name,
\* labels (compared as Go map values), commonName, the ordered list of
\* dnsNames, secretName, issuerRef.name or issuerRef.kind; no other field
\* of a or b matters.
C6_NeedsUpdateIffDiffers ==
    cmp.result # "unset" =>
        (cmp.result = "true") =
            \/ cmp.a.name # cmp.b.name
            \/ cmp.a.labels # cmp.b.labels
            \/ cmp.a.commonName # cmp.b.commonName
            \/ cmp.a.dnsNames # cmp.b.dnsNames
            \/ cmp.a.secretName # cmp.b.secretName
            \/ cmp.a.issuerRef.name # cmp.b.issuerRef.name
            \/ cmp.a.issuerRef.kind # cmp.b.issuerRef.kind

\* two Certificates that differ only in the order of their dnsNames were
\* compared
C6_Witness ==
    /\ cmp.result = "true"
    /\ cmp.a.dnsNames = <<"a.example", "b.example">>
    /\ cmp.b.dnsNames = <<"b.example", "a.example">>
    /\ cmp.a.name = cmp.b.name
    /\ cmp.a.labels = cmp.b.labels
    /\ cmp.a.commonName = cmp.b.commonName
    /\ cmp.a.secretName = cmp.b.secretName
    /\ cmp.a.issuerRef = cmp.b.issuerRef

----------------------------------------------------------------------------
(* The Vault issuer's Setup.  An issuer is its spec.vault: server, path    *)
(* and the three auth pointers (NoAuth when nil); the environment is what  *)
(* vaultinternal.New and client.Sys().Health() answer.                     *)

NoAuth == [isNil |-> TRUE]

TokenAuths == {NoAuth} \cup {[isNil |-> FALSE, Name |-> n] : n \in {"", "token"}}

AppRoleAuths ==
    {NoAuth} \cup {[isNil |-> FALSE, RoleId |-> r, SecretRefName |-> n] :
                      r \in {"", "role-id"}, n \in {"", "approle"}}

KubernetesAuths ==
    {NoAuth} \cup {[isNil |-> FALSE, SecretRefName |-> n, Role |-> r] :
                      n \in {"", "sa-token"}, r \in {"", "role"}}

VaultIssuers ==
    {[Server |-> sv, Path |-> pa, TokenSecretRef |-> t, AppRole |-> a, Kubernetes |-> k] :
        sv \in {"", "https://vault"}, pa \in {"", "pki/sign/x"},
        t \in TokenAuths, a \in AppRoleAuths, k \in KubernetesAuths}

VaultServers ==
    {[newErr |-> n, healthErr |-> h, Initialized |-> i, Sealed |-> sl] :
        n \in BOOLEAN, h \in BOOLEAN, i \in BOOLEAN, sl \in BOOLEAN}

\* every return hands the error back
SetupResult_alwaysErr(ready, ret, calls) == [ready |-> ready, ret |-> "err", calls |-> calls]

\* calls: the calls made to the Vault client library, in order
SetupResult(ready, ret, calls) == [ready |-> ready, ret |-> ret, calls |-> calls]

\* Setup without the check that only one auth method is set
Setup_anyAuthCount(issuer, server) ==
    LET tokenAuth == issuer.TokenSecretRef
        appRoleAuth == issuer.AppRole
        kubeAuth == issuer.Kubernetes
    IN  IF issuer.Server = "" \/ issuer.Path = "" THEN SetupResult("False", "nil", <<>>)
        ELSE IF tokenAuth.isNil /\ appRoleAuth.isNil /\ kubeAuth.isNil
             THEN SetupResult("False", "nil", <<>>)
        ELSE IF ~tokenAuth.isNil /\ tokenAuth.Name = "" THEN SetupResult("False", "nil", <<>>)
        ELSE IF ~appRoleAuth.isNil /\ (appRoleAuth.RoleId = "" \/ appRoleAuth.SecretRefName = "")
             THEN SetupResult("False", "nil", <<>>)
        ELSE IF ~kubeAuth.isNil /\ (kubeAuth.SecretRefName = "" \/ kubeAuth.Role = "")
             THEN SetupResult("False", "nil", <<>>)
        ELSE IF server.newErr THEN SetupResult("False", "err", <<"New">>)
        ELSE IF server.healthErr THEN SetupResult("False", "err", <<"New", "Health">>)
        ELSE IF ~server.Initialized \/ server.Sealed
             THEN SetupResult("False", "err", <<"New", "Health">>)
        ELSE SetupResult("True", "nil", <<"New", "Health">>)

Setup(issuer, server) ==
    LET tokenAuth == issuer.TokenSecretRef
        appRoleAuth == issuer.AppRole
        kubeAuth == issuer.Kubernetes
    IN  IF issuer.Server = "" \/ issuer.Path = "" THEN SetupResult("False", "nil", <<>>)
        ELSE IF tokenAuth.isNil /\ appRoleAuth.isNil /\ kubeAuth.isNil
             THEN SetupResult("False", "nil", <<>>)
        ELSE IF \/ (~tokenAuth.isNil /\ ~appRoleAuth.isNil)
                \/ (~tokenAuth.isNil /\ ~kubeAuth.isNil)
                \/ (~appRoleAuth.isNil /\ ~kubeAuth.isNil)
             THEN SetupResult("False", "nil", <<>>)
        ELSE IF ~tokenAuth.isNil /\ tokenAuth.Name = "" THEN SetupResult("False", "nil", <<>>)
        ELSE IF ~appRoleAuth.isNil /\ (appRoleAuth.RoleId = "" \/ appRoleAuth.SecretRefName = "")
             THEN SetupResult("False", "nil", <<>>)
        ELSE IF ~kubeAuth.isNil /\ (kubeAuth.SecretRefName = "" \/ kubeAuth.Role = "")
             THEN SetupResult("False", "nil", <<>>)
        ELSE IF server.newErr THEN SetupResult("False", "err", <<"New">>)
        ELSE IF server.healthErr THEN SetupResult("False", "err", <<"New", "Health">>)
        ELSE IF ~server.Initialized \/ server.Sealed
             THEN SetupResult("False", "err", <<"New", "Health">>)
        ELSE SetupResult("True", "nil", <<"New", "Health">>)

InitVault ==
    /\ vault \in {[issuer |-> i, server |-> sv, ready |-> "unset", ret |-> "none",
                   calls |-> <<>>] :
                     i \in VaultIssuers, sv \in VaultServers}
    /\ cmp = [result |-> "unset"]
    /\ MiscIdle
    /\ SyncIdle
    /\ ShimIdle
    /\ ToolIdle

SetupVault ==
    /\ vault.ready = "unset"
    /\ vault' = [vault EXCEPT !.ready = Setup(vault.issuer, vault.server).ready,
                              !.ret = Setup(vault.issuer, vault.server).ret,
                              !.calls = Setup(vault.issuer, vault.server).calls]
    /\ UNCHANGED <<ingLike, defaults, crts, rec, cmp>>
    /\ UNCHANGED shimVars
    /\ UNCHANGED toolVars
    /\ UNCHANGED miscVars

SpecVault == InitVault /\ [][SetupVault]_vars

AuthComplete(i) ==
    \/ /\ ~i.TokenSecretRef.isNil /\ i.AppRole.isNil /\ i.Kubernetes.isNil
       /\ i.TokenSecretRef.Name # ""
    \/ /\ i.TokenSecretRef.isNil /\ ~i.AppRole.isNil /\ i.Kubernetes.isNil
       /\ i.AppRole.RoleId # "" /\ i.AppRole.SecretRefName # ""
    \/ /\ i.TokenSecretRef.isNil /\ i.AppRole.isNil /\ ~i.Kubernetes.isNil
       /\ i.Kubernetes.SecretRefName # "" /\ i.Kubernetes.Role # ""

\* C10: whenever Setup set Ready=True, the issuer has a non-empty server
\* and path, exactly one of the three auth methods with its required
\* sub-fields non-empty, and the health endpoint answered initialized and
\* not sealed.
C10_ReadyImpliesVerified ==
    vault.ready = "True" =>
        /\ vault.issuer.Server # "" /\ vault.issuer.Path # ""
        /\ AuthComplete(vault.issuer)
        /\ ~vault.server.newErr /\ ~vault.server.healthErr
        /\ vault.server.Initialized /\ ~vault.server.Sealed

\* Setup set Ready=True for an issuer with Kubernetes auth
C10_Witness ==
    /\ vault.ready = "True"
    /\ vault.ret = "nil"
    /\ ~vault.issuer.Kubernetes.isNil

VaultConfigError(i) == i.Server = "" \/ i.Path = "" \/ ~AuthComplete(i)

VaultServerFailure(sv) == sv.newErr \/ sv.healthErr \/ ~sv.Initialized \/ sv.Sealed

\* C11: every failure of the Vault Setup sets Ready=False; a configuration
\* error returns nil and neither constructs a client nor calls the health
\* endpoint; a client construction failure, a failed health call, or an
\* uninitialized or sealed server returns an error.
C11_FailureClassified ==
    vault.ready # "unset" =>
        /\ VaultConfigError(vault.issuer) =>
               (vault.ready = "False" /\ vault.ret = "nil" /\ vault.calls = <<>>)
        /\ (~VaultConfigError(vault.issuer) /\ VaultServerFailure(vault.server)) =>
               (vault.ready = "False" /\ vault.ret = "err")
        /\ vault.ready = "False" =>
               (VaultConfigError(vault.issuer) \/ VaultServerFailure(vault.server))

\* Setup failed on a sealed server after the health call answered
C11_Witness ==
    /\ vault.ready = "False"
    /\ vault.ret = "err"
    /\ vault.calls = <<"New", "Health">>
    /\ ~vault.server.healthErr
    /\ vault.server.Sealed

----------------------------------------------------------------------------
(* The ACME issuer's Setup: data.                                          *)

\* the table without the entries that end in a slash
acmev1ToV2Mappings_noSlash ==
    [u \in {"https://acme-v01.api.letsencrypt.org/directory",
            "https://acme-staging.api.letsencrypt.org/directory"} |->
        IF u = "https://acme-v01.api.letsencrypt.org/directory"
        THEN "https://acme-v02.api.letsencrypt.org/directory"
        ELSE "https://acme-staging-v02.api.letsencrypt.org/directory"]

acmev1ToV2Mappings ==
    [u \in {"https://acme-v01.api.letsencrypt.org/directory",
            "https://acme-staging.api.letsencrypt.org/directory",
            "https://acme-v01.api.letsencrypt.org/directory/",
            "https://acme-staging.api.letsencrypt.org/directory/"} |->
        IF u \in {"https://acme-v01.api.letsencrypt.org/directory",
                  "https://acme-v01.api.letsencrypt.org/directory/"}
        THEN "https://acme-v02.api.letsencrypt.org/directory"
        ELSE "https://acme-staging-v02.api.letsencrypt.org/directory"]

\* url.Parse on the URLs of this model: [err, Host]
ParseURL(u) ==
    IF u \in {":bad-url", "%zz"} THEN [err |-> TRUE, Host |-> ""]
    ELSE IF u = "" THEN [err |-> FALSE, Host |-> ""]
    ELSE IF u \in {"https://acme-v02.api.letsencrypt.org/directory",
                   "https://acme-v02.api.letsencrypt.org/acme/acct/1"}
         THEN [err |-> FALSE, Host |-> "acme-v02.api.letsencrypt.org"]
    ELSE IF u \in {"https://acme.example.org/dir", "https://acme.example.org/acct/7"}
         THEN [err |-> FALSE, Host |-> "acme.example.org"]
    ELSE IF u \in {"https://acme-v01.api.letsencrypt.org/directory",
                   "https://acme-v01.api.letsencrypt.org/directory/",
                   "https://acme-v01.api.letsencrypt.org/acme/reg/1"}
         THEN [err |-> FALSE, Host |-> "acme-v01.api.letsencrypt.org"]
    ELSE [err |-> FALSE, Host |-> "other"]

ACMEServers ==
    DOMAIN acmev1ToV2Mappings
    \cup {"https://acme-v02.api.letsencrypt.org/directory",
          "https://acme.example.org/dir", ":bad-url"}

AccountURIs ==
    {"", "https://acme-v02.api.letsencrypt.org/acme/acct/1",
     "https://acme.example.org/acct/7",
     "https://acme-v01.api.letsencrypt.org/acme/reg/1", "%zz"}

SpecEmails == {"", "a@example.org", "B@example.org"}

\* strings.ToLower on the e-mail addresses of this model
ToLower(e) == IF e = "B@example.org" THEN "b@example.org" ELSE e

\* fmt.Sprintf("mailto:%s", e)
Mailto(e) ==
    IF e = "a@example.org" THEN "mailto:a@example.org"
    ELSE IF e = "b@example.org" THEN "mailto:b@example.org"
    ELSE IF e = "B@example.org" THEN "mailto:B@example.org"
    ELSE "mailto:"

\* strings.Replace(c, "mailto:", "", 1)
StripMailto(c) ==
    IF c = "mailto:a@example.org" THEN "a@example.org"
    ELSE IF c = "mailto:b@example.org" THEN "b@example.org"
    ELSE IF c = "mailto:B@example.org" THEN "B@example.org"
    ELSE IF c = "mailto:" THEN ""
    ELSE c

\* []string{"mailto:<lower-cased spec email>"}, nil for no email
ContactFor(specEmail) ==
    IF specEmail # "" THEN <<Mailto(ToLower(specEmail))>> ELSE <<>>

NoEAB == [isNil |-> TRUE]

ACMEIssuers ==
    {[uid |-> "uid-issuer",
      spec |-> [Server |-> sv, Email |-> em, PrivateKeyName |-> "acme-key",
                ExternalAccountBinding |-> eab],
      status |-> [ready |-> rd, uri |-> uri, lastRegisteredEmail |-> le]] :
        sv \in ACMEServers, em \in SpecEmails,
        eab \in {NoEAB, [isNil |-> FALSE, KeyID |-> "kid", KeyName |-> "eab-key"]},
        rd \in {"True", "False"}, uri \in AccountURIs, le \in SpecEmails}

\* what the private key secret holds, as kube.SecretTLSKeyRef finds it
KeySecrets == {"notfound", "invalid", "error", "rsa", "ecdsa"}

NoError == [kind |-> "none", code |-> 0]

\* the errors an ACME client call can return: *acmeapi.Error with an HTTP
\* status, or any other error
ACMECallErrors ==
    {[kind |-> "acme", code |-> c] : c \in {399, 400, 404, 499, 500, 503}}
    \cup {[kind |-> "other", code |-> 0]}

NoAccount == [URI |-> "", Contact |-> <<>>]

\* the accounts the server can answer with
ServerAccounts ==
    {[URI |-> "https://acme-v02.api.letsencrypt.org/acme/acct/1", Contact |-> c] :
        c \in {<<>>, <<"mailto:a@example.org">>, <<"mailto:b@example.org">>}}

Call(op, err, acc) == [op |-> op, err |-> err, acc |-> acc]

----------------------------------------------------------------------------
(* The ACME issuer's Setup: registerAccount, ensureEmailUpToDate, Setup.   *)
(* Every operator gives the set of its possible results, one per answer    *)
(* of the secrets API and of the ACME server; calls lists, in order, the   *)
(* calls made with their answers.                                          *)

\* the account fetched by GetReg is dropped
registerAccount_dropsFetched(issuer) ==
    {[acc |-> a, err |-> NoError, calls |-> <<Call("Register", NoError, a)>>] :
        a \in ServerAccounts}
    \cup
    {[acc |-> NoAccount, err |-> e, calls |-> <<Call("Register", e, NoAccount)>>] :
        e \in ACMECallErrors}
    \cup
    {[acc |-> NoAccount, err |-> NoError,
      calls |-> <<Call("Register", [kind |-> "exists", code |-> 0], NoAccount),
                  Call("GetReg", NoError, a)>>] : a \in ServerAccounts}

\* registerAccount: [acc, err, calls]
registerAccount(issuer) ==
    LET sent == [URI |-> "", Contact |-> ContactFor(issuer.spec.Email)]
    IN  {[acc |-> a, err |-> NoError, calls |-> <<Call("Register", NoError, a)>>] :
            a \in ServerAccounts}
        \cup
        {[acc |-> NoAccount, err |-> e, calls |-> <<Call("Register", e, NoAccount)>>] :
            e \in ACMECallErrors}
        \cup
        {[acc |-> a, err |-> NoError,
          calls |-> <<Call("Register", [kind |-> "exists", code |-> 0], NoAccount),
                      Call("GetReg", NoError, a)>>] : a \in ServerAccounts}
        \cup
        {[acc |-> NoAccount, err |-> e,
          calls |-> <<Call("Register", [kind |-> "exists", code |-> 0], NoAccount),
                      Call("GetReg", e, NoAccount)>>] : e \in ACMECallErrors}

\* the email read from the account is reported even after an update
ensureEmailUpToDate_staleEmail(acc, specEmail) ==
    LET registeredEmail == IF Len(acc.Contact) > 0 THEN StripMailto(acc.Contact[1]) ELSE ""
        updated == [acc EXCEPT !.Contact = ContactFor(specEmail)]
    IN  IF registeredEmail # specEmail
        THEN {[acc |-> updated, registeredEmail |-> registeredEmail, err |-> NoError,
               calls |-> <<Call("UpdateReg", NoError, updated)>>]}
        ELSE {[acc |-> acc, registeredEmail |-> registeredEmail, err |-> NoError,
               calls |-> <<>>]}

\* ensureEmailUpToDate: [acc, registeredEmail, err, calls]
ensureEmailUpToDate(acc, specEmail) ==
    LET registeredEmail == IF Len(acc.Contact) > 0 THEN StripMailto(acc.Contact[1]) ELSE ""
        updated == [acc EXCEPT !.Contact = ContactFor(specEmail)]
    IN  IF registeredEmail # specEmail
        THEN {[acc |-> updated, registeredEmail |-> specEmail, err |-> NoError,
               calls |-> <<Call("UpdateReg", NoError, updated)>>]}
             \cup
             {[acc |-> NoAccount, registeredEmail |-> "", err |-> e,
               calls |-> <<Call("UpdateReg", e, NoAccount)>>] : e \in ACMECallErrors}
        ELSE {[acc |-> acc, registeredEmail |-> registeredEmail, err |-> NoError,
               calls |-> <<>>]}

\* every 4xx and 5xx answer is retried
ReturnFor_retryAll(err) == "err"

\* what Setup returns after a failed registration or email update
ReturnFor(err) ==
    IF err.kind # "acme" THEN "err"
    ELSE IF err.code >= 400 /\ err.code < 500 THEN "nil"
    ELSE "err"

\* createAccountPrivateKey: [ok, calls, secret]
createAccountPrivateKey(keySecret) ==
    {[ok |-> FALSE, calls |-> <<Call("GenerateRSAPrivateKey", [kind |-> "other", code |-> 0], NoAccount)>>,
      secret |-> keySecret],
     [ok |-> FALSE,
      calls |-> <<Call("GenerateRSAPrivateKey", NoError, NoAccount),
                  Call("CreateSecret", [kind |-> "other", code |-> 0], NoAccount)>>,
      secret |-> keySecret],
     [ok |-> TRUE,
      calls |-> <<Call("GenerateRSAPrivateKey", NoError, NoAccount),
                  Call("CreateSecret", NoError, NoAccount)>>,
      secret |-> "rsa"]}

\* getEABKey: the answers of the secret read and of the decoding
getEABKey(issuer) ==
    {[kind |-> k,
      calls |-> <<Call("GetEABSecret",
                       IF k = "ok" THEN NoError ELSE [kind |-> k, code |-> 0],
                       NoAccount)>>] :
        k \in {"ok", "notfound", "invalid", "other"}}

\* every failure hands an error back
SetupFailed_returnsErr(st, path, reason, ret, retErr) ==
    [st EXCEPT !.path = path, !.ready = "False", !.reason = reason,
               !.ret = "err", !.retErr = [kind |-> "other", code |-> 0]]

\* SetIssuerCondition(Ready, False, reason, ...) followed by a return
SetupFailed(st, path, reason, ret, retErr) ==
    [st EXCEPT !.path = path, !.ready = "False", !.reason = reason,
               !.ret = ret, !.retErr = retErr]

\* Setup from the registerAccount call on (st.uri is the cached account
\* URI, already cleared where the code clears it)
SetupRegister(issuer, st) ==
    UNION {
        IF r.err # NoError
        THEN {SetupFailed([st EXCEPT !.calls = @ \o r.calls], "registerFailed",
                          "ErrRegisterACMEAccount", ReturnFor(r.err), r.err)}
        ELSE {IF u.err # NoError
              THEN SetupFailed([st EXCEPT !.calls = @ \o r.calls \o u.calls],
                               "updateFailed", "ErrUpdateACMEAccount",
                               ReturnFor(u.err), u.err)
              ELSE [st EXCEPT !.path = "registered",
                              !.ready = "True",
                              !.reason = "ACMEAccountRegistered",
                              !.uri = u.acc.URI,
                              !.lastEmail = u.registeredEmail,
                              !.registry = TRUE,
                              !.calls = @ \o r.calls \o u.calls] :
                 u \in ensureEmailUpToDate(r.acc, issuer.spec.Email)}
        : r \in registerAccount(issuer)}

\* Setup from the external account binding on
SetupEAB(issuer, st) ==
    IF issuer.spec.ExternalAccountBinding.isNil THEN SetupRegister(issuer, st)
    ELSE UNION {
        LET st1 == [st EXCEPT !.calls = @ \o k.calls]
        IN  IF k.kind \in {"notfound", "invalid"}
            THEN {SetupFailed(st1, "eabFailed", "ErrRegisterACMEAccount", "nil", NoError)}
            ELSE IF k.kind = "other"
            THEN {SetupFailed(st1, "eabFailed", "ErrRegisterACMEAccount", "err",
                              [kind |-> "other", code |-> 0])}
            ELSE SetupRegister(issuer, st1)
        : k \in getEABKey(issuer)}

\* the cached registration is never trusted
SetupVerify_neverSkips(issuer, st, pk) ==
    IF pk # "rsa"
    THEN {SetupFailed(st, "notRSA", "ErrVerifyACMEAccount", "nil", NoError)}
    ELSE LET st1 == [st EXCEPT !.registry = FALSE, !.clientServer = issuer.spec.Server]
         IN  IF ParseURL(issuer.spec.Server).err \/ ParseURL(st.uri).err
             THEN {SetupFailed(st1, "invalidURL", "InvalidURL", "nil", NoError)}
             ELSE IF ParseURL(st.uri).Host # ParseURL(issuer.spec.Server).Host
             THEN SetupEAB(issuer, [st1 EXCEPT !.uri = ""])
             ELSE SetupEAB(issuer, st1)

\* Setup from the type assertion of the private key on; pk is "rsa" or "ecdsa"
SetupVerify(issuer, st, pk) ==
    IF pk # "rsa"
    THEN {SetupFailed(st, "notRSA", "ErrVerifyACMEAccount", "nil", NoError)}
    ELSE LET st1 == [st EXCEPT !.registry = FALSE, !.clientServer = issuer.spec.Server]
             parsedServerURL == ParseURL(issuer.spec.Server)
             parsedAccountURL == ParseURL(st.uri)
         IN  IF parsedServerURL.err
             THEN {SetupFailed(st1, "invalidURL", "InvalidURL", "nil", NoError)}
             ELSE IF parsedAccountURL.err
             THEN {SetupFailed(st1, "invalidURL", "InvalidURL", "nil", NoError)}
             ELSE IF /\ st.ready = "True"
                     /\ st.uri # ""
                     /\ parsedAccountURL.Host = parsedServerURL.Host
                     /\ st.lastEmail = issuer.spec.Email
             THEN {[st1 EXCEPT !.path = "skipped", !.registry = TRUE]}
             ELSE IF parsedAccountURL.Host # parsedServerURL.Host
             THEN SetupEAB(issuer, [st1 EXCEPT !.uri = ""])
             ELSE SetupEAB(issuer, st1)

\* the cached account URI survives the new key
AfterNewKey_keepURI(st) == st

\* "We clear the ACME account URI as we have generated a new private key"
AfterNewKey(st) == [st EXCEPT !.uri = ""]

\* (*ACME).Setup: the set of its possible results
Setup_ACME(issuer, keySecret, registry) ==
    LET st == [path |-> "", ready |-> issuer.status.ready, reason |-> "",
               ret |-> "nil", retErr |-> NoError,
               uri |-> issuer.status.uri,
               lastEmail |-> issuer.status.lastRegisteredEmail,
               registry |-> registry, secret |-> keySecret, calls |-> <<>>,
               suggested |-> "", clientServer |-> ""]
        read == [st EXCEPT !.calls = <<Call("GetSecret", NoError, NoAccount)>>]
    IN  IF issuer.spec.Server \in DOMAIN acmev1ToV2Mappings
        THEN {[SetupFailed(st, "v1", "InvalidConfig", "nil", NoError)
                  EXCEPT !.suggested = acmev1ToV2Mappings[issuer.spec.Server]]}
        ELSE IF keySecret = "notfound"
        THEN UNION {IF c.ok
                    THEN SetupVerify(issuer,
                             AfterNewKey([read EXCEPT !.calls = @ \o c.calls,
                                                      !.secret = c.secret]), "rsa")
                    ELSE {SetupFailed([read EXCEPT !.calls = @ \o c.calls], "keyFailed",
                                      "ErrRegisterACMEAccount", "err",
                                      [kind |-> "other", code |-> 0])}
                    : c \in createAccountPrivateKey(keySecret)}
        ELSE IF keySecret = "invalid"
        THEN {SetupFailed(read, "keyInvalid", "ErrVerifyACMEAccount", "nil", NoError)}
        ELSE IF keySecret = "error"
        THEN {SetupFailed(read, "keyFailed", "ErrVerifyACMEAccount", "err",
                          [kind |-> "other", code |-> 0])}
        ELSE SetupVerify(issuer, read, keySecret)

InitACME ==
    /\ acme \in {[ran |-> FALSE, issuer |-> i, keySecret |-> k, registry |-> r] :
                    i \in ACMEIssuers, k \in KeySecrets, r \in BOOLEAN}
    /\ chk = [result |-> "unset"]
    /\ codec = [stage |-> "idle"]
    /\ cmp = [result |-> "unset"]
    /\ vault = [ready |-> "unset"]
    /\ SyncIdle
    /\ ShimIdle
    /\ ToolIdle

SetupACME ==
    /\ ~acme.ran
    /\ \E out \in Setup_ACME(acme.issuer, acme.keySecret, acme.registry) :
          acme' = [ran |-> TRUE, issuer |-> acme.issuer, keySecret |-> acme.keySecret,
                   registry |-> acme.registry, out |-> out]
    /\ UNCHANGED <<ingLike, defaults, crts, rec, cmp, vault, chk, codec>>
    /\ UNCHANGED shimVars
    /\ UNCHANGED toolVars

SpecACME == InitACME /\ [][SetupACME]_vars

-----------------------------------------------------------------------------
(* Claims about the ACME issuer's Setup.                                   *)

ACMEOps == {"Register", "GetReg", "UpdateReg"}

OpsOf(calls) == {calls[k].op : k \in DOMAIN calls}

\* the four deprecated directory URLs and their successors, as listed
ListedV1URLs ==
    {"https://acme-v01.api.letsencrypt.org/directory",
     "https://acme-v01.api.letsencrypt.org/directory/",
     "https://acme-staging.api.letsencrypt.org/directory",
     "https://acme-staging.api.letsencrypt.org/directory/"}

ListedV2(u) ==
    IF u \in {"https://acme-v01.api.letsencrypt.org/directory",
              "https://acme-v01.api.letsencrypt.org/directory/"}
    THEN "https://acme-v02.api.letsencrypt.org/directory"
    ELSE "https://acme-staging-v02.api.letsencrypt.org/directory"

\* C12: the v1-to-v2 table maps each of the four listed v1 directory URLs to
\* its v2 equivalent; when the issuer's server URL is in the table, Setup sets
\* Ready=False with reason InvalidConfig, returns nil and makes no secret
\* read, key generation or ACME call; a server URL outside the table gets no
\* InvalidConfig condition and the client, if built, is built for that URL.
C12_V1ServerRejected ==
    /\ DOMAIN acmev1ToV2Mappings = ListedV1URLs
    /\ \A u \in DOMAIN acmev1ToV2Mappings : acmev1ToV2Mappings[u] = ListedV2(u)
    /\ acme.ran =>
         IF acme.issuer.spec.Server \in ListedV1URLs
         THEN /\ acme.out.ready = "False"
              /\ acme.out.reason = "InvalidConfig"
              /\ acme.out.ret = "nil"
              /\ acme.out.calls = <<>>
              /\ acme.out.secret = acme.keySecret
              /\ acme.out.suggested = ListedV2(acme.issuer.spec.Server)
         ELSE /\ acme.out.reason # "InvalidConfig"
              /\ acme.out.suggested = ""
              /\ acme.out.calls # <<>>
              /\ acme.out.clientServer \in {"", acme.issuer.spec.Server}

C12_Witness ==
    /\ acme.ran
    /\ acme.issuer.spec.Server = "https://acme-staging.api.letsencrypt.org/directory/"
    /\ acme.issuer.status.ready = "True"
    /\ acme.out.reason = "InvalidConfig"

\* the issuer looks registered: valid RSA key, Ready=True, a cached account
\* URI on the server's host, and the cached email equal to the spec email
CachedRegistrationSufficient ==
    /\ acme.ran
    /\ acme.keySecret = "rsa"
    /\ acme.issuer.status.ready = "True"
    /\ acme.issuer.status.uri # ""
    /\ ~ParseURL(acme.issuer.status.uri).err
    /\ ~ParseURL(acme.issuer.spec.Server).err
    /\ ParseURL(acme.issuer.status.uri).Host = ParseURL(acme.issuer.spec.Server).Host
    /\ acme.issuer.status.lastRegisteredEmail = acme.issuer.spec.Email

VerificationSkipped ==
    /\ OpsOf(acme.out.calls) \cap ACMEOps = {}
    /\ acme.out.ret = "nil"
    /\ acme.out.ready = acme.issuer.status.ready
    /\ acme.out.uri = acme.issuer.status.uri
    /\ acme.out.lastEmail = acme.issuer.status.lastRegisteredEmail
    /\ acme.out.registry

\* C13 as stated: an issuer whose cached registration looks sufficient is
\* left as it is, without any Register, GetReg or UpdateReg call.
C13_Original_SkipWhenCached == CachedRegistrationSufficient => VerificationSkipped

\* C13, amended: an issuer whose cached registration looks sufficient and
\* whose server URL is not one of the deprecated v1 URLs is left as it is:
\* no Register, GetReg or UpdateReg call, nil returned, Ready, account URI and
\* last-registered email unchanged, and a client in the account registry.
C13_SkipWhenCachedAndNotV1 ==
    (CachedRegistrationSufficient /\ acme.issuer.spec.Server \notin ListedV1URLs)
        => VerificationSkipped

C13_Witness ==
    /\ CachedRegistrationSufficient
    /\ acme.issuer.spec.Server = "https://acme.example.org/dir"
    /\ ~acme.registry
    /\ acme.out.path = "skipped"
    /\ acme.out.registry

\* the read of the account key secret answered "not found"
KeySecretNotFound ==
    /\ acme.ran
    /\ acme.keySecret = "notfound"
    /\ "GetSecret" \in OpsOf(acme.out.calls)

KeyCreated ==
    /\ "GenerateRSAPrivateKey" \in OpsOf(acme.out.calls)
    /\ "CreateSecret" \in OpsOf(acme.out.calls)
    /\ acme.out.secret = "rsa"

\* C14 as stated: when the key secret is not found, Setup creates a key and
\* its secret, does not skip verification and calls Register.
C14_Original_NotFoundRegisters ==
    KeySecretNotFound =>
        /\ KeyCreated
        /\ acme.out.path # "skipped"
        /\ "Register" \in OpsOf(acme.out.calls)

\* C14, amended: when the read of the key secret answers not found, Setup
\* tries to generate a key and to create its secret; if that fails it returns
\* the error with Ready=False; if it succeeds the cached account URI is
\* cleared and the skip path is never taken, and Register is called unless
\* the server URL does not parse or the external account binding key cannot
\* be read.
C14_NotFoundNeverSkips ==
    KeySecretNotFound =>
        /\ "GenerateRSAPrivateKey" \in OpsOf(acme.out.calls)
        /\ IF KeyCreated
           THEN /\ acme.out.path # "skipped"
                /\ acme.out.path # "registered" => acme.out.uri = ""
                /\ \/ "Register" \in OpsOf(acme.out.calls)
                   \/ acme.out.path = "invalidURL" /\ ParseURL(acme.issuer.spec.Server).err
                   \/ acme.out.path = "eabFailed" /\ ~acme.issuer.spec.ExternalAccountBinding.isNil
           ELSE /\ acme.out.path = "keyFailed"
                /\ acme.out.ready = "False"
                /\ acme.out.ret = "err"
                /\ acme.out.secret = "notfound"
                /\ OpsOf(acme.out.calls) \cap ACMEOps = {}

C14_Witness ==
    /\ KeySecretNotFound
    /\ KeyCreated
    /\ acme.issuer.status.ready = "True"
    /\ acme.issuer.status.uri = "https://acme.example.org/acct/7"
    /\ acme.issuer.spec.Server = "https://acme.example.org/dir"
    /\ acme.issuer.status.lastRegisteredEmail = acme.issuer.spec.Email
    /\ "Register" \in OpsOf(acme.out.calls)

\* C15: when the read of the account key fails with invalid data, or the
\* stored key is not an RSA key, Setup sets Ready=False, returns nil, makes
\* no key and writes no secret, and makes no ACME call.
C15_InvalidKeyNotRetried ==
    (/\ acme.ran
     /\ "GetSecret" \in OpsOf(acme.out.calls)
     /\ acme.keySecret \in {"invalid", "ecdsa"}) =>
        /\ acme.out.ready = "False"
        /\ acme.out.ret = "nil"
        /\ acme.out.secret = acme.keySecret
        /\ OpsOf(acme.out.calls) = {"GetSecret"}

C15_Witness ==
    /\ acme.ran
    /\ acme.keySecret = "ecdsa"
    /\ acme.issuer.status.ready = "True"
    /\ acme.out.path = "notRSA"
    /\ acme.out.ready = "False"

\* the error of the last call made
LastCallError == acme.out.calls[Len(acme.out.calls)].err

ExistingAccountFetched ==
    /\ acme.ran
    /\ \E k \in 1..(Len(acme.out.calls) - 1) :
          /\ acme.out.calls[k].op = "Register"
          /\ acme.out.calls[k].err.kind = "exists"
          /\ acme.out.calls[k + 1].op = "GetReg"
          /\ acme.out.calls[k + 1].err = NoError

FetchedAccount ==
    LET k == CHOOSE j \in DOMAIN acme.out.calls : acme.out.calls[j].op = "GetReg"
    IN  acme.out.calls[k].acc

\* the result at hand with the two calls replaced by a successful Register
AsIfRegistered ==
    LET k == CHOOSE j \in DOMAIN acme.out.calls : acme.out.calls[j].op = "GetReg"
    IN  [acme.out EXCEPT
            !.calls = SubSeq(acme.out.calls, 1, k - 2)
                      \o <<Call("Register", NoError, FetchedAccount)>>
                      \o SubSeq(acme.out.calls, k + 1, Len(acme.out.calls))]

RegisteredAccount ==
    LET k == CHOOSE j \in DOMAIN acme.out.calls :
                 /\ acme.out.calls[j].op \in {"Register", "GetReg"}
                 /\ acme.out.calls[j].err = NoError
    IN  acme.out.calls[k].acc

RegisteredContact ==
    IF Len(RegisteredAccount.Contact) > 0
    THEN StripMailto(RegisteredAccount.Contact[1]) ELSE ""

\* C18: when the registration path completes, Ready is True, the status URI
\* is the URI of the account the server answered with, the last-registered
\* email is the spec email, UpdateReg was called exactly when the account's
\* registered contact differed from the spec email, and the account registry
\* holds a client for the issuer.
C18_RegistrationPostconditions ==
    (acme.ran /\ acme.out.path = "registered") =>
        /\ acme.out.ready = "True"
        /\ acme.out.ret = "nil"
        /\ acme.out.uri = acme.out.calls[Len(acme.out.calls)].acc.URI
        /\ acme.out.uri = RegisteredAccount.URI
        /\ acme.out.lastEmail = acme.issuer.spec.Email
        /\ "UpdateReg" \in OpsOf(acme.out.calls) <=>
              RegisteredContact # acme.issuer.spec.Email
        /\ acme.out.registry

C18_Witness ==
    /\ acme.ran
    /\ acme.out.path = "registered"
    /\ ~acme.registry
    /\ acme.issuer.spec.Email = "B@example.org"
    /\ RegisteredContact = "b@example.org"
    /\ "UpdateReg" \in OpsOf(acme.out.calls)
    /\ acme.out.lastEmail = "B@example.org"

-----------------------------------------------------------------------------
(* SecretChecker of the Vault and of the ACME backend: does a change of    *)
(* this secret concern this issuer?  An issuer spec carries the            *)
(* configuration of one backend, or of none of the two.                    *)

NilSpec == [isNil |-> TRUE]

CheckedVaultSpecs ==
    {[isNil |-> FALSE, TokenSecretRef |-> t, AppRole |-> a, Kubernetes |-> k] :
        t \in TokenAuths, a \in AppRoleAuths, k \in KubernetesAuths}

CheckedACMESpecs ==
    {[isNil |-> FALSE, PrivateKeyName |-> pk, ExternalAccountBinding |-> eab] :
        pk \in {"acme-key", "token"},
        eab \in {NoEAB, [isNil |-> FALSE, KeyID |-> "kid", KeyName |-> "eab-key"]}}

CheckedIssuers ==
    {[Vault |-> v, ACME |-> NilSpec] : v \in CheckedVaultSpecs}
    \cup {[Vault |-> NilSpec, ACME |-> a] : a \in CheckedACMESpecs}
    \cup {[Vault |-> NilSpec, ACME |-> NilSpec]}

CheckedSecretNames == {"", "token", "approle", "sa-token", "acme-key", "eab-key", "other"}

Backends == {"vault", "acme"}

\* (*Vault).SecretChecker
SecretChecker_Vault(issuer, secretName) ==
    LET vaultSpec == issuer.Vault
    IN  IF vaultSpec.isNil THEN "false"
        ELSE IF ~vaultSpec.TokenSecretRef.isNil /\ vaultSpec.TokenSecretRef.Name = secretName
        THEN "true"
        ELSE IF ~vaultSpec.AppRole.isNil /\ vaultSpec.AppRole.SecretRefName = secretName
        THEN "true"
        ELSE IF ~vaultSpec.Kubernetes.isNil /\ vaultSpec.Kubernetes.SecretRefName = secretName
        THEN "true"
        ELSE "false"

\* (*ACME).SecretChecker; "panic" is the nil pointer dereference of
\* acmeSpec.ExternalAccountBinding.Key.Name, evaluated only when the private
\* key's name did not match
SecretChecker_ACME(issuer, secretName) ==
    LET acmeSpec == issuer.ACME
    IN  IF acmeSpec.isNil THEN "false"
        ELSE IF acmeSpec.PrivateKeyName = secretName THEN "true"
        ELSE IF acmeSpec.ExternalAccountBinding.isNil THEN "panic"
        ELSE IF acmeSpec.ExternalAccountBinding.KeyName = secretName THEN "true"
        ELSE "false"

SecretChecker(backend, issuer, secretName) ==
    IF backend = "vault" THEN SecretChecker_Vault(issuer, secretName)
    ELSE SecretChecker_ACME(issuer, secretName)

InitChecker ==
    /\ chk \in {[result |-> "unset", backend |-> b, issuer |-> i, secret |-> n] :
                   b \in Backends, i \in CheckedIssuers, n \in CheckedSecretNames}
    /\ acme = [ran |-> FALSE]
    /\ codec = [stage |-> "idle"]
    /\ cmp = [result |-> "unset"]
    /\ vault = [ready |-> "unset"]
    /\ SyncIdle
    /\ ShimIdle
    /\ ToolIdle

CheckSecret ==
    /\ chk.result = "unset"
    /\ chk' = [chk EXCEPT !.result = SecretChecker(chk.backend, chk.issuer, chk.secret)]
    /\ UNCHANGED <<ingLike, defaults, crts, rec, cmp, vault, acme, codec>>
    /\ UNCHANGED shimVars
    /\ UNCHANGED toolVars

SpecChecker == InitChecker /\ [][CheckSecret]_vars

\* the names of the secrets the issuer's configuration for this backend refers to
ReferencedSecrets(backend, issuer) ==
    IF backend = "vault"
    THEN IF issuer.Vault.isNil THEN {}
         ELSE UNION {IF issuer.Vault.TokenSecretRef.isNil THEN {}
                     ELSE {issuer.Vault.TokenSecretRef.Name},
                     IF issuer.Vault.AppRole.isNil THEN {}
                     ELSE {issuer.Vault.AppRole.SecretRefName},
                     IF issuer.Vault.Kubernetes.isNil THEN {}
                     ELSE {issuer.Vault.Kubernetes.SecretRefName}}
    ELSE IF issuer.ACME.isNil THEN {}
         ELSE {issuer.ACME.PrivateKeyName}
              \cup (IF issuer.ACME.ExternalAccountBinding.isNil THEN {}
                    ELSE {issuer.ACME.ExternalAccountBinding.KeyName})

\* C19: SecretChecker answers true exactly when the secret's name is the name
\* of a secret the issuer's configuration refers to, and false, without
\* failing, for every other secret and every issuer configuration.
C19_SecretCheckerExact ==
    chk.result # "unset" =>
        chk.result = (IF chk.secret \in ReferencedSecrets(chk.backend, chk.issuer)
                      THEN "true" ELSE "false")

-----------------------------------------------------------------------------
(* The PKCS1 codec: Encode turns a bundle (private key, certificate chain, *)
(* CA chain) into the data of a Secret, Decode reads it back.  PEM data is *)
(* the sequence of its blocks, a block is its type and its DER bytes; a    *)
(* nil and an empty slice are both the empty sequence.                     *)

MaxChain == 2

MaxConditions == 2

RSAKeys == {[alg |-> "rsa", id |-> "k1"], [alg |-> "rsa", id |-> "k2"]}

PrivateKeys == RSAKeys \cup {[alg |-> "ecdsa", id |-> "e1"]}

\* parsed certificates, each with the DER bytes it was parsed from
X509Certificates == {[Raw |-> "der-c1"], [Raw |-> "der-c2"]}

Chains == SeqsUpTo(X509Certificates, MaxChain)

Bundles ==
    {[PrivateKey |-> k, Certificates |-> cs, CA |-> ca] :
        k \in PrivateKeys, cs \in Chains, ca \in Chains}

TLSPrivateKeyKey == "tls.key"

TLSCertKey == "tls.crt"

TLSCAKey == "ca.crt"

\* x509.MarshalPKCS1PrivateKey and x509.ParsePKCS1PrivateKey
MarshalPKCS1PrivateKey(rsaPK) ==
    IF rsaPK.id = "k1" THEN "der-pkcs1-k1" ELSE "der-pkcs1-k2"

ParsePKCS1PrivateKey(der) ==
    IF der = "der-pkcs1-k1" THEN [err |-> FALSE, pk |-> [alg |-> "rsa", id |-> "k1"]]
    ELSE IF der = "der-pkcs1-k2" THEN [err |-> FALSE, pk |-> [alg |-> "rsa", id |-> "k2"]]
    ELSE [err |-> TRUE]

\* x509.ParseCertificate
ParseCertificate(der) ==
    IF der \in {c.Raw : c \in X509Certificates}
    THEN [err |-> FALSE, cert |-> [Raw |-> der]]
    ELSE [err |-> TRUE]

\* pem.EncodeToMemory of one block
PEMBlock(type, bytes) == <<[pem |-> TRUE, Type |-> type, Bytes |-> bytes]>>

\* bytes that hold no PEM block
NotPEM == <<[pem |-> FALSE, Type |-> "", Bytes |-> "junk"]>>

\* pem.Decode: the first block of the data, nil when there is none
pemDecode(data) ==
    LET at == {k \in DOMAIN data : data[k].pem}
    IN  IF at = {} THEN [isNil |-> TRUE]
        ELSE [isNil |-> FALSE, block |-> data[CHOOSE k \in at : \A j \in at : k <= j]]

\* one CERTIFICATE block per certificate, in the order of the chain
RECURSIVE encodeCertificatesASN1PEM(_)
encodeCertificatesASN1PEM(certs) ==
    IF certs = <<>> THEN <<>>
    ELSE PEMBlock("CERTIFICATE", Head(certs).Raw) \o encodeCertificatesASN1PEM(Tail(certs))

\* pki.DecodeX509CertificateChainBytes: the certificates of the blocks, in
\* order; invalid data when there is no block, a block of another type or a
\* block that does not parse
RECURSIVE DecodeBlocks(_)
DecodeBlocks(pemData) ==
    IF pemData = <<>> THEN [err |-> FALSE, certs |-> <<>>]
    ELSE IF Head(pemData).Type # "CERTIFICATE" \/ ParseCertificate(Head(pemData).Bytes).err
    THEN [err |-> TRUE, certs |-> <<>>]
    ELSE LET rest == DecodeBlocks(Tail(pemData))
         IN  IF rest.err THEN rest
             ELSE [err |-> FALSE,
                   certs |-> <<ParseCertificate(Head(pemData).Bytes).cert>> \o rest.certs]

DecodeX509CertificateChainBytes(pemData) ==
    IF pemData = <<>> THEN [err |-> TRUE, certs |-> <<>>] ELSE DecodeBlocks(pemData)

\* e.Data[key]: the zero value for a key that is absent
DataAt(data, key) == IF key \in DOMAIN data THEN data[key] ELSE <<>>

\* the map with one more entry
WithEntry(data, key, value) ==
    [k \in DOMAIN data \cup {key} |-> IF k = key THEN value ELSE data[k]]

\* an empty chain is stored all the same
PKCS1_Encode_keepsEmpty(d) ==
    IF d.PrivateKey.alg # "rsa" THEN [err |-> TRUE]
    ELSE [err |-> FALSE,
          Data |-> [k \in {TLSPrivateKeyKey, TLSCertKey, TLSCAKey} |->
                       IF k = TLSPrivateKeyKey
                       THEN PEMBlock("RSA PRIVATE KEY", MarshalPKCS1PrivateKey(d.PrivateKey))
                       ELSE IF k = TLSCertKey THEN encodeCertificatesASN1PEM(d.Certificates)
                       ELSE encodeCertificatesASN1PEM(d.CA)]]

\* PKCS1.Encode
PKCS1_Encode(d) ==
    IF d.PrivateKey.alg # "rsa" THEN [err |-> TRUE]
    ELSE LET pkPEM == PEMBlock("RSA PRIVATE KEY", MarshalPKCS1PrivateKey(d.PrivateKey))
             data0 == WithEntry(<<>>, TLSPrivateKeyKey, pkPEM)
             data1 == IF Len(d.Certificates) > 0
                      THEN WithEntry(data0, TLSCertKey, encodeCertificatesASN1PEM(d.Certificates))
                      ELSE data0
             data2 == IF Len(d.CA) > 0
                      THEN WithEntry(data1, TLSCAKey, encodeCertificatesASN1PEM(d.CA))
                      ELSE data1
         IN  [err |-> FALSE, Data |-> data2]

\* the type marker of the key block is not looked at
PKCS1_Decode_anyMarker(e) ==
    LET pkPEM == DataAt(e.Data, TLSPrivateKeyKey)
        d0 == [PrivateKey |-> [alg |-> "none", id |-> ""], Certificates |-> <<>>, CA |-> <<>>]
        block == pemDecode(pkPEM)
        pk == IF block.isNil THEN [err |-> TRUE] ELSE ParsePKCS1PrivateKey(block.block.Bytes)
    IN  IF Len(pkPEM) > 0 /\ pk.err THEN [err |-> TRUE, kind |-> "InvalidData", d |-> d0]
        ELSE IF Len(pkPEM) > 0 THEN [err |-> FALSE, kind |-> "", d |-> [d0 EXCEPT !.PrivateKey = pk.pk]]
        ELSE [err |-> FALSE, kind |-> "", d |-> d0]

\* PKCS1.Decode: the bundle filled so far and whether invalid data was met
PKCS1_Decode(e) ==
    LET pkPEM == DataAt(e.Data, TLSPrivateKeyKey)
        certsPEM == DataAt(e.Data, TLSCertKey)
        caPEM == DataAt(e.Data, TLSCAKey)
        d0 == [PrivateKey |-> [alg |-> "none", id |-> ""], Certificates |-> <<>>, CA |-> <<>>]
        block == pemDecode(pkPEM)
        pk == IF ~block.isNil /\ block.block.Type = "RSA PRIVATE KEY"
              THEN ParsePKCS1PrivateKey(block.block.Bytes) ELSE [err |-> TRUE]
        d1 == IF Len(pkPEM) > 0 /\ ~pk.err THEN [d0 EXCEPT !.PrivateKey = pk.pk] ELSE d0
        certs == DecodeX509CertificateChainBytes(certsPEM)
        d2 == IF Len(certsPEM) > 0 THEN [d1 EXCEPT !.Certificates = certs.certs] ELSE d1
        ca == DecodeX509CertificateChainBytes(caPEM)
        d3 == IF Len(caPEM) > 0 THEN [d2 EXCEPT !.CA = ca.certs] ELSE d2
    IN  IF Len(pkPEM) > 0 /\ pk.err THEN [err |-> TRUE, kind |-> "InvalidData", d |-> d0]
        ELSE IF Len(certsPEM) > 0 /\ certs.err
        THEN [err |-> TRUE, kind |-> "InvalidData", d |-> d2]
        ELSE IF Len(caPEM) > 0 /\ ca.err THEN [err |-> TRUE, kind |-> "InvalidData", d |-> d3]
        ELSE [err |-> FALSE, kind |-> "", d |-> d3]

InitCodec ==
    /\ codec \in {[stage |-> "bundle", bundle |-> b] : b \in Bundles}
    /\ acme = [ran |-> FALSE]
    /\ chk = [result |-> "unset"]
    /\ cmp = [result |-> "unset"]
    /\ vault = [ready |-> "unset"]
    /\ SyncIdle
    /\ ShimIdle
    /\ ToolIdle

Encode ==
    /\ codec.stage = "bundle"
    /\ codec' = [stage |-> "encoded", bundle |-> codec.bundle,
                 raw |-> PKCS1_Encode(codec.bundle)]
    /\ UNCHANGED <<ingLike, defaults, crts, rec, cmp, vault, acme, chk>>
    /\ UNCHANGED shimVars
    /\ UNCHANGED toolVars

Decode ==
    /\ codec.stage = "encoded"
    /\ ~codec.raw.err
    /\ codec' = [stage |-> "decoded", bundle |-> codec.bundle, raw |-> codec.raw,
                 out |-> PKCS1_Decode(codec.raw)]
    /\ UNCHANGED <<ingLike, defaults, crts, rec, cmp, vault, acme, chk>>
    /\ UNCHANGED shimVars
    /\ UNCHANGED toolVars

NextCodec == Encode \/ Decode

SpecCodec == InitCodec /\ [][NextCodec]_vars

\* C20: for a bundle with an RSA private key, Encode succeeds and omits from
\* the data every chain that is empty, and Decode of the encoded data succeeds
\* and gives the same private key, the same certificate chain and the same CA
\* chain, each in the same order, an omitted chain being empty.
C20_PKCS1RoundTrip ==
    /\ (codec.stage # "bundle" /\ codec.bundle.PrivateKey.alg = "rsa") =>
          /\ ~codec.raw.err
          /\ TLSPrivateKeyKey \in DOMAIN codec.raw.Data
          /\ TLSCertKey \in DOMAIN codec.raw.Data <=> codec.bundle.Certificates # <<>>
          /\ TLSCAKey \in DOMAIN codec.raw.Data <=> codec.bundle.CA # <<>>
    /\ codec.stage = "decoded" =>
          /\ ~codec.out.err
          /\ codec.out.d.PrivateKey = codec.bundle.PrivateKey
          /\ codec.out.d.Certificates = codec.bundle.Certificates
          /\ codec.out.d.CA = codec.bundle.CA

C20_Witness ==
    /\ codec.stage = "decoded"
    /\ codec.bundle.Certificates = <<[Raw |-> "der-c2"], [Raw |-> "der-c1"]>>
    /\ codec.bundle.CA = <<>>
    /\ DOMAIN codec.raw.Data = {TLSPrivateKeyKey, TLSCertKey}
    /\ codec.out.d.Certificates = <<[Raw |-> "der-c2"], [Raw |-> "der-c1"]>>
    /\ codec.out.d.CA = <<>>

-----------------------------------------------------------------------------
(* The codec on the data of any Secret: Decode is also handed data that    *)
(* Encode did not write.                                                   *)

NoBundle == [PrivateKey |-> [alg |-> "none", id |-> ""], Certificates |-> <<>>, CA |-> <<>>]

\* what the tls.key entry of a Secret can hold
KeyEntries ==
    {<<>>, NotPEM,
     PEMBlock("RSA PRIVATE KEY", MarshalPKCS1PrivateKey([alg |-> "rsa", id |-> "k1"])),
     PEMBlock("RSA PRIVATE KEY", "der-truncated"),
     PEMBlock("PRIVATE KEY", "der-pkcs8-k1"),
     PEMBlock("PRIVATE KEY", MarshalPKCS1PrivateKey([alg |-> "rsa", id |-> "k1"])),
     PEMBlock("EC PRIVATE KEY", "der-sec1-e1"),
     PEMBlock("CERTIFICATE", "der-c1"),
     NotPEM \o PEMBlock("RSA PRIVATE KEY", MarshalPKCS1PrivateKey([alg |-> "rsa", id |-> "k2"]))}

\* what a chain entry of a Secret can hold
ChainEntries ==
    {<<>>, NotPEM, PEMBlock("CERTIFICATE", "der-c1"),
     PEMBlock("CERTIFICATE", "der-c1") \o PEMBlock("RSA PRIVATE KEY", "der-truncated")}

RawDatas ==
    {[k \in {TLSPrivateKeyKey, TLSCertKey, TLSCAKey} |->
         IF k = TLSPrivateKeyKey THEN pk ELSE IF k = TLSCertKey THEN cs ELSE ca] :
        pk \in KeyEntries, cs \in ChainEntries, ca \in ChainEntries}

InitCodecRaw ==
    /\ codec \in {[stage |-> "bundle", bundle |-> b] : b \in Bundles}
               \cup {[stage |-> "encoded", bundle |-> NoBundle,
                      raw |-> [err |-> FALSE, Data |-> d]] : d \in RawDatas}
    /\ acme = [ran |-> FALSE]
    /\ chk = [result |-> "unset"]
    /\ cmp = [result |-> "unset"]
    /\ vault = [ready |-> "unset"]
    /\ SyncIdle
    /\ ShimIdle
    /\ ToolIdle

SpecCodecRaw == InitCodecRaw /\ [][NextCodec]_vars

\* the private key data holds something that is not an RSA PRIVATE KEY block
KeyDataNotPKCS1 ==
    LET pkPEM == DataAt(codec.raw.Data, TLSPrivateKeyKey)
    IN  /\ Len(pkPEM) > 0
        /\ \/ \A k \in DOMAIN pkPEM : ~pkPEM[k].pem
           \/ \E k \in DOMAIN pkPEM :
                 /\ pkPEM[k].pem
                 /\ \A j \in 1..(k - 1) : ~pkPEM[j].pem
                 /\ pkPEM[k].Type # "RSA PRIVATE KEY"

\* C21: Decode fails with an invalid-data error whenever the private key data
\* is non-empty and holds no PEM block, or a block whose type is not
\* "RSA PRIVATE KEY", and the bundle it returns then has no private key;
\* Encode fails for every private key that is not an RSA key and returns no
\* data.
C21_CodecRejectsForeignKeys ==
    /\ (codec.stage = "decoded" /\ KeyDataNotPKCS1) =>
          /\ codec.out.err
          /\ codec.out.kind = "InvalidData"
          /\ codec.out.d.PrivateKey.alg = "none"
    /\ (codec.stage # "bundle" /\ codec.bundle \in Bundles
            /\ codec.bundle.PrivateKey.alg # "rsa") =>
          /\ codec.raw.err
          /\ "Data" \notin DOMAIN codec.raw

C21_Witness ==
    /\ codec.stage = "decoded"
    /\ codec.raw.Data[TLSPrivateKeyKey] =
          PEMBlock("PRIVATE KEY", MarshalPKCS1PrivateKey([alg |-> "rsa", id |-> "k1"]))
    /\ codec.raw.Data[TLSCertKey] = PEMBlock("CERTIFICATE", "der-c1")
    /\ codec.out.err

-----------------------------------------------------------------------------
(* The certificate gauges of the metrics registry: UpdateCertificate and   *)
(* RemoveCertificate.  A gauge is the set of its series, a series is its   *)
(* labels and its value.  latest remembers, for each key, the arguments of *)
(* the most recent UpdateCertificate.                                      *)

CertificateKeys == {"test-ns/crt1", "test-ns/crt2"}

\* Unix seconds of status.notAfter and of "now"
NotAfterTimes == {100, 200}

NowTimes == {0, 100, 300}

NoTime == [isNil |-> TRUE]

MetricCertificates ==
    {[key |-> k, NotAfter |-> t, Ready |-> r] :
        k \in CertificateKeys,
        t \in {NoTime} \cup {[isNil |-> FALSE, Unix |-> u] : u \in NotAfterTimes},
        r \in {"none", "True", "False", "Unknown"}}

readyConditionStatuses == {"True", "False", "Unknown"}

\* GaugeVec.With(labels).Set(value) and GaugeVec.DeleteLabelValues(labels)
GaugeSet(gauge, labels, value) ==
    {sr \in gauge : sr.labels # labels} \cup {[labels |-> labels, value |-> value]}

GaugeDelete(gauge, labels) == {sr \in gauge : sr.labels # labels}

ReadyLabels(key, condition) == [key |-> key, condition |-> condition]

ExpiryLabels(key) == [key |-> key]

\* the status of the Ready condition, Unknown when there is none
ReadyStatusOf(crt) == IF crt.Ready = "none" THEN "Unknown" ELSE crt.Ready

\* the three ready series of one certificate
ReadySeriesFor(key, current) ==
    {[labels |-> ReadyLabels(key, c), value |-> IF c = current THEN 1 ELSE 0] :
        c \in readyConditionStatuses}

\* the series of the status that is not current are left as they were
UpdateCertificate_onlyCurrent(m, crt, now) ==
    [m EXCEPT
        !.ready = GaugeSet(@, ReadyLabels(crt.key, ReadyStatusOf(crt)), 1),
        !.expiry = GaugeSet(@, ExpiryLabels(crt.key),
                            IF crt.NotAfter.isNil THEN 0 ELSE crt.NotAfter.Unix),
        !.relative = GaugeSet(@, ExpiryLabels(crt.key),
                              IF crt.NotAfter.isNil THEN 0 ELSE crt.NotAfter.Unix - now)]

\* the relative gauge counts from the expiry to now
UpdateCertificate_sinceExpiry(m, crt, now) ==
    [m EXCEPT
        !.ready = {sr \in @ : sr.labels.key # crt.key}
                  \cup ReadySeriesFor(crt.key, ReadyStatusOf(crt)),
        !.expiry = GaugeSet(@, ExpiryLabels(crt.key),
                            IF crt.NotAfter.isNil THEN 0 ELSE crt.NotAfter.Unix),
        !.relative = GaugeSet(@, ExpiryLabels(crt.key),
                              IF crt.NotAfter.isNil THEN 0 ELSE now - crt.NotAfter.Unix)]

\* UpdateCertificate(ctx, crt, now)
UpdateCertificate(m, crt, now) ==
    [m EXCEPT
        !.ready = {sr \in @ : sr.labels.key # crt.key}
                  \cup ReadySeriesFor(crt.key, ReadyStatusOf(crt)),
        !.expiry = GaugeSet(@, ExpiryLabels(crt.key),
                            IF crt.NotAfter.isNil THEN 0 ELSE crt.NotAfter.Unix),
        !.relative = GaugeSet(@, ExpiryLabels(crt.key),
                              IF crt.NotAfter.isNil THEN 0 ELSE crt.NotAfter.Unix - now)]

\* the relative expiry series is left behind
RemoveCertificate_keepsRelative(m, key) ==
    [m EXCEPT
        !.ready = {sr \in @ : sr.labels.key # key},
        !.expiry = GaugeDelete(@, ExpiryLabels(key))]

\* RemoveCertificate(key)
RemoveCertificate(m, key) ==
    [m EXCEPT
        !.ready = {sr \in @ : sr.labels.key # key},
        !.expiry = GaugeDelete(@, ExpiryLabels(key)),
        !.relative = GaugeDelete(@, ExpiryLabels(key))]

NoUpdate == [seen |-> FALSE]

InitMetrics ==
    /\ metrics = [on |-> TRUE, ready |-> {}, expiry |-> {}, relative |-> {},
                  latest |-> [k \in CertificateKeys |-> NoUpdate],
                  last |-> [op |-> "New", key |-> ""]]
    /\ inst = [step |-> "idle"]
    /\ fn = [op |-> "none"]
    /\ venafi = [step |-> "idle"]
    /\ PureIdle
    /\ SyncIdle
    /\ ShimIdle

MetricsUpdate ==
    /\ \E crt \in MetricCertificates, now \in NowTimes :
          metrics' = [UpdateCertificate(metrics, crt, now) EXCEPT
                         !.latest[crt.key] = [seen |-> TRUE, crt |-> crt, now |-> now],
                         !.last = [op |-> "UpdateCertificate", key |-> crt.key]]
    /\ UNCHANGED <<inst, fn, venafi>>
    /\ UNCHANGED syncVars
    /\ UNCHANGED shimVars
    /\ UNCHANGED pureVars

MetricsRemove ==
    /\ \E key \in CertificateKeys :
          metrics' = [RemoveCertificate(metrics, key) EXCEPT
                         !.last = [op |-> "RemoveCertificate", key |-> key]]
    /\ UNCHANGED <<inst, fn, venafi>>
    /\ UNCHANGED syncVars
    /\ UNCHANGED shimVars
    /\ UNCHANGED pureVars

NextMetrics == MetricsUpdate \/ MetricsRemove

SpecMetrics == InitMetrics /\ [][NextMetrics]_vars

-----------------------------------------------------------------------------
(* Claims about the certificate gauges.                                    *)

ReadySeriesOf(m, key) == {sr \in m.ready : sr.labels.key = key}

SeriesOf(gauge, key) == {sr \in gauge : sr.labels.key = key}

SeriesNotOf(gauge, key) == {sr \in gauge : sr.labels.key # key}

\* C22: for every certificate key that has ready-status series, the three
\* series True, False and Unknown exist, exactly one of them is 1 and the
\* other two are 0, and the one that is 1 is the status of the Ready
\* condition in the most recent UpdateCertificate for that key, Unknown when
\* that certificate had no Ready condition.
C22_ExactlyOneReadySeries ==
    metrics.on =>
        \A key \in CertificateKeys :
            ReadySeriesOf(metrics, key) # {} =>
                /\ metrics.latest[key].seen
                /\ \A c \in readyConditionStatuses :
                      Cardinality({sr \in ReadySeriesOf(metrics, key) :
                                      sr.labels.condition = c}) = 1
                /\ Cardinality(ReadySeriesOf(metrics, key)) = 3
                /\ \A sr \in ReadySeriesOf(metrics, key) :
                      sr.value = IF sr.labels.condition =
                                       (IF metrics.latest[key].crt.Ready = "none"
                                        THEN "Unknown"
                                        ELSE metrics.latest[key].crt.Ready)
                                 THEN 1 ELSE 0

C22_Witness ==
    /\ metrics.on
    /\ metrics.last = [op |-> "UpdateCertificate", key |-> "test-ns/crt1"]
    /\ metrics.latest["test-ns/crt1"].crt.Ready = "False"
    /\ [labels |-> [key |-> "test-ns/crt1", condition |-> "False"], value |-> 1]
           \in metrics.ready
    /\ [labels |-> [key |-> "test-ns/crt1", condition |-> "True"], value |-> 0]
           \in metrics.ready
    /\ [labels |-> [key |-> "test-ns/crt2", condition |-> "Unknown"], value |-> 1]
           \in metrics.ready
    /\ metrics.latest["test-ns/crt2"].crt.Ready = "none"

\* C23: after UpdateCertificate(cert, now) the absolute expiry gauge of the
\* certificate is its NotAfter in Unix seconds and the relative expiry gauge
\* is NotAfter minus now in seconds; without a NotAfter both are 0.
C23_ExpiryGauges ==
    (metrics.on /\ metrics.last.op = "UpdateCertificate") =>
        LET key == metrics.last.key
            crt == metrics.latest[key].crt
            now == metrics.latest[key].now
        IN  /\ SeriesOf(metrics.expiry, key) =
                  {[labels |-> [key |-> key],
                    value |-> IF crt.NotAfter.isNil THEN 0 ELSE crt.NotAfter.Unix]}
            /\ SeriesOf(metrics.relative, key) =
                  {[labels |-> [key |-> key],
                    value |-> IF crt.NotAfter.isNil THEN 0 ELSE crt.NotAfter.Unix - now]}

C23_Witness ==
    /\ metrics.on
    /\ metrics.last = [op |-> "UpdateCertificate", key |-> "test-ns/crt1"]
    /\ metrics.latest["test-ns/crt1"].crt.NotAfter = [isNil |-> FALSE, Unix |-> 200]
    /\ metrics.latest["test-ns/crt1"].now = 100
    /\ [labels |-> [key |-> "test-ns/crt1"], value |-> 100] \in metrics.relative
    /\ [labels |-> [key |-> "test-ns/crt1"], value |-> 200] \in metrics.expiry
    /\ [labels |-> [key |-> "test-ns/crt2"], value |-> 0 - 200] \in metrics.relative

\* C24: RemoveCertificate(key) leaves no series of that certificate in any of
\* the three gauges, leaves the series of every other certificate as they
\* were, and changes nothing when the key had no series.
C24_RemoveDeletesOnlyThatKey ==
    [][metrics'.last.op = "RemoveCertificate" =>
          LET key == metrics'.last.key
          IN  /\ SeriesOf(metrics'.ready, key) = {}
              /\ SeriesOf(metrics'.expiry, key) = {}
              /\ SeriesOf(metrics'.relative, key) = {}
              /\ SeriesNotOf(metrics'.ready, key) = SeriesNotOf(metrics.ready, key)
              /\ SeriesNotOf(metrics'.expiry, key) = SeriesNotOf(metrics.expiry, key)
              /\ SeriesNotOf(metrics'.relative, key) = SeriesNotOf(metrics.relative, key)
              /\ (SeriesOf(metrics.ready, key) \cup SeriesOf(metrics.expiry, key)
                     \cup SeriesOf(metrics.relative, key) = {}) =>
                    /\ metrics'.ready = metrics.ready
                    /\ metrics'.expiry = metrics.expiry
                    /\ metrics'.relative = metrics.relative]_vars

C24_Witness ==
    /\ metrics.on
    /\ metrics.last = [op |-> "RemoveCertificate", key |-> "test-ns/crt2"]
    /\ metrics.latest["test-ns/crt2"].seen
    /\ SeriesOf(metrics.ready, "test-ns/crt2") = {}
    /\ SeriesOf(metrics.relative, "test-ns/crt2") = {}
    /\ Cardinality(SeriesOf(metrics.ready, "test-ns/crt1")) = 3
    /\ SeriesOf(metrics.relative, "test-ns/crt1") # {}

-----------------------------------------------------------------------------
(* Conversion between the v1alpha3 and the internal form of ChallengeSpec  *)
(* and OrderSpec.  The generated autoConvert functions copy the fields     *)
(* that have the same name in both forms and leave the renamed field of    *)
(* the fresh output at its zero value.                                     *)

ChallengeURLs == {"", "https://acme.example.org/authz/1", "https://acme.example.org/chall/2"}

\* CSR bytes; the empty sequence is the nil slice
CSRBytes == {<<>>, <<48>>, <<48, 130>>, <<130, 48>>}

V1alpha3ChallengeSpecs ==
    {[AuthzURL |-> a, URL |-> u, Type |-> t] :
        a \in ChallengeURLs, u \in ChallengeURLs, t \in {"http-01", "dns-01"}}

AcmeChallengeSpecs ==
    {[AuthorizationURL |-> a, URL |-> u, Type |-> t] :
        a \in ChallengeURLs, u \in ChallengeURLs, t \in {"http-01", "dns-01"}}

V1alpha3OrderSpecs ==
    {[CSR |-> c, CommonName |-> n] : c \in CSRBytes, n \in {"", "a.example"}}

AcmeOrderSpecs ==
    {[Request |-> c, CommonName |-> n] : c \in CSRBytes, n \in {"", "a.example"}}

autoConvert_v1alpha3_ChallengeSpec_To_acme_ChallengeSpec(in) ==
    [AuthorizationURL |-> "", URL |-> in.URL, Type |-> in.Type]

autoConvert_acme_ChallengeSpec_To_v1alpha3_ChallengeSpec(in) ==
    [AuthzURL |-> "", URL |-> in.URL, Type |-> in.Type]

autoConvert_v1alpha3_OrderSpec_To_acme_OrderSpec(in) ==
    [Request |-> <<>>, CommonName |-> in.CommonName]

autoConvert_acme_OrderSpec_To_v1alpha3_OrderSpec(in) ==
    [CSR |-> <<>>, CommonName |-> in.CommonName]

Convert_v1alpha3_ChallengeSpec_To_acme_ChallengeSpec(in) ==
    [autoConvert_v1alpha3_ChallengeSpec_To_acme_ChallengeSpec(in)
        EXCEPT !.AuthorizationURL = in.AuthzURL]

Convert_acme_ChallengeSpec_To_v1alpha3_ChallengeSpec(in) ==
    [autoConvert_acme_ChallengeSpec_To_v1alpha3_ChallengeSpec(in)
        EXCEPT !.AuthzURL = in.AuthorizationURL]

\* the hand-written assignment of the renamed field is missing
Convert_v1alpha3_OrderSpec_To_acme_OrderSpec_autoOnly(in) ==
    autoConvert_v1alpha3_OrderSpec_To_acme_OrderSpec(in)

Convert_v1alpha3_OrderSpec_To_acme_OrderSpec(in) ==
    [autoConvert_v1alpha3_OrderSpec_To_acme_OrderSpec(in) EXCEPT !.Request = in.CSR]

Convert_acme_OrderSpec_To_v1alpha3_OrderSpec(in) ==
    [autoConvert_acme_OrderSpec_To_v1alpha3_OrderSpec(in) EXCEPT !.CSR = in.Request]

\* the conversion of a value of the given type out of the given form
ConvertFrom(form, type, in) ==
    IF form = "v1alpha3"
    THEN IF type = "ChallengeSpec"
         THEN Convert_v1alpha3_ChallengeSpec_To_acme_ChallengeSpec(in)
         ELSE Convert_v1alpha3_OrderSpec_To_acme_OrderSpec(in)
    ELSE IF type = "ChallengeSpec"
         THEN Convert_acme_ChallengeSpec_To_v1alpha3_ChallengeSpec(in)
         ELSE Convert_acme_OrderSpec_To_v1alpha3_OrderSpec(in)

OtherForm(form) == IF form = "v1alpha3" THEN "internal" ELSE "v1alpha3"

ConvertInputs ==
    {[op |-> "convert", stage |-> "input", form |-> "v1alpha3", type |-> "ChallengeSpec",
      in |-> x] : x \in V1alpha3ChallengeSpecs}
    \cup {[op |-> "convert", stage |-> "input", form |-> "internal",
           type |-> "ChallengeSpec", in |-> x] : x \in AcmeChallengeSpecs}
    \cup {[op |-> "convert", stage |-> "input", form |-> "v1alpha3", type |-> "OrderSpec",
           in |-> x] : x \in V1alpha3OrderSpecs}
    \cup {[op |-> "convert", stage |-> "input", form |-> "internal", type |-> "OrderSpec",
           in |-> x] : x \in AcmeOrderSpecs}

Convert ==
    /\ fn.op = "convert"
    /\ fn.stage = "input"
    /\ fn' = [op |-> "convert", stage |-> "converted", form |-> fn.form, type |-> fn.type,
              in |-> fn.in, mid |-> ConvertFrom(fn.form, fn.type, fn.in)]
    /\ UNCHANGED <<metrics, inst, venafi>>
    /\ UNCHANGED syncVars
    /\ UNCHANGED shimVars
    /\ UNCHANGED pureVars

ConvertBack ==
    /\ fn.op = "convert"
    /\ fn.stage = "converted"
    /\ fn' = [op |-> "convert", stage |-> "back", form |-> fn.form, type |-> fn.type,
              in |-> fn.in, mid |-> fn.mid,
              out |-> ConvertFrom(OtherForm(fn.form), fn.type, fn.mid)]
    /\ UNCHANGED <<metrics, inst, venafi>>
    /\ UNCHANGED syncVars
    /\ UNCHANGED shimVars
    /\ UNCHANGED pureVars

\* C25: a v1alpha3 ChallengeSpec converted to the internal form and back has
\* its original AuthzURL, a v1alpha3 OrderSpec its original CSR bytes; in the
\* internal form AuthorizationURL is the v1alpha3 AuthzURL and Request the
\* v1alpha3 CSR; and likewise for the round trip that starts from the
\* internal form.
C25_RenamedFieldsRoundTrip ==
    (fn.op = "convert" /\ fn.stage # "input") =>
        /\ (fn.form = "v1alpha3" /\ fn.type = "ChallengeSpec") =>
              /\ fn.mid.AuthorizationURL = fn.in.AuthzURL
              /\ fn.stage = "back" => fn.out.AuthzURL = fn.in.AuthzURL
        /\ (fn.form = "v1alpha3" /\ fn.type = "OrderSpec") =>
              /\ fn.mid.Request = fn.in.CSR
              /\ fn.stage = "back" => fn.out.CSR = fn.in.CSR
        /\ (fn.form = "internal" /\ fn.type = "ChallengeSpec") =>
              /\ fn.mid.AuthzURL = fn.in.AuthorizationURL
              /\ fn.stage = "back" => fn.out.AuthorizationURL = fn.in.AuthorizationURL
        /\ (fn.form = "internal" /\ fn.type = "OrderSpec") =>
              /\ fn.mid.CSR = fn.in.Request
              /\ fn.stage = "back" => fn.out.Request = fn.in.Request

C25_Witness ==
    /\ fn.op = "convert"
    /\ fn.stage = "back"
    /\ fn.form = "v1alpha3"
    /\ fn.type = "OrderSpec"
    /\ fn.in.CSR = <<48, 130>>
    /\ fn.mid.Request = <<48, 130>>
    /\ fn.out = fn.in

-----------------------------------------------------------------------------
(* SetDefaults_VenafiCloud: the defaulting of a Venafi Cloud issuer.       *)

DefaultVenafiCloudURL == "https://api.venafi.cloud/v1"

DefaultVenafiCloudAPITokenSecretRefKey == "api-key"

VenafiClouds ==
    {[URL |-> u, APITokenSecretRef |-> [Name |-> n, Key |-> k]] :
        u \in {"", DefaultVenafiCloudURL, "https://custom-url", "https://api.venafi.eu"},
        n \in {"", "venafi-secret"},
        k \in {"", DefaultVenafiCloudAPITokenSecretRefKey, "foo"}}

\* nothing is defaulted unless both fields are unset
SetDefaults_VenafiCloud_whenBothUnset(obj) ==
    IF obj.URL = "" /\ obj.APITokenSecretRef.Key = ""
    THEN [obj EXCEPT !.URL = DefaultVenafiCloudURL,
                     !.APITokenSecretRef.Key = DefaultVenafiCloudAPITokenSecretRefKey]
    ELSE obj

SetDefaults_VenafiCloud(obj) ==
    LET withURL == IF obj.URL = "" THEN [obj EXCEPT !.URL = DefaultVenafiCloudURL] ELSE obj
    IN  IF withURL.APITokenSecretRef.Key = ""
        THEN [withURL EXCEPT !.APITokenSecretRef.Key = DefaultVenafiCloudAPITokenSecretRefKey]
        ELSE withURL

DefaultsInputs == {[op |-> "defaults", stage |-> "input", in |-> o] : o \in VenafiClouds}

SetDefaults ==
    /\ fn.op = "defaults"
    /\ fn.stage = "input"
    /\ fn' = [op |-> "defaults", stage |-> "once", in |-> fn.in,
              once |-> SetDefaults_VenafiCloud(fn.in)]
    /\ UNCHANGED <<metrics, inst, venafi>>
    /\ UNCHANGED syncVars
    /\ UNCHANGED shimVars
    /\ UNCHANGED pureVars

SetDefaultsAgain ==
    /\ fn.op = "defaults"
    /\ fn.stage = "once"
    /\ fn' = [op |-> "defaults", stage |-> "twice", in |-> fn.in, once |-> fn.once,
              twice |-> SetDefaults_VenafiCloud(fn.once)]
    /\ UNCHANGED <<metrics, inst, venafi>>
    /\ UNCHANGED syncVars
    /\ UNCHANGED shimVars
    /\ UNCHANGED pureVars

\* C26: SetDefaults_VenafiCloud sets the URL to the default URL exactly when
\* the URL is empty and the API token secret key to the default key exactly
\* when that key is empty; a set URL or key is kept, each field is defaulted
\* whatever the other holds, and defaulting twice gives what defaulting once
\* gives.
C26_VenafiCloudDefaults ==
    (fn.op = "defaults" /\ fn.stage # "input") =>
        /\ fn.once.URL =
              (IF fn.in.URL = "" THEN "https://api.venafi.cloud/v1" ELSE fn.in.URL)
        /\ fn.once.APITokenSecretRef.Key =
              (IF fn.in.APITokenSecretRef.Key = "" THEN "api-key"
               ELSE fn.in.APITokenSecretRef.Key)
        /\ fn.once.APITokenSecretRef.Name = fn.in.APITokenSecretRef.Name
        /\ fn.stage = "twice" => fn.twice = fn.once

C26_Witness ==
    /\ fn.op = "defaults"
    /\ fn.stage = "twice"
    /\ fn.in.URL = "https://custom-url"
    /\ fn.in.APITokenSecretRef.Key = ""
    /\ fn.once.URL = "https://custom-url"
    /\ fn.once.APITokenSecretRef.Key = "api-key"

-----------------------------------------------------------------------------
(* The pod disruption budget helpers of the chart.  A value of the chart   *)
(* is absent, a number or a string; a template pipeline treats the absent  *)
(* value, 0 and "" as empty.                                               *)

NilValue == [kind |-> "nil"]

ChartValues ==
    {NilValue} \cup {[kind |-> "int", n |-> n] : n \in {0, 1, 2}}
               \cup {[kind |-> "str", s |-> x] : x \in {"", "0%", "50%"}}

\* the truth of a value in {{ if }}, and, not and default
Truthy(v) ==
    \/ v.kind = "int" /\ v.n # 0
    \/ v.kind = "str" /\ v.s # ""

TplAnd(a, b) == IF Truthy(a) THEN b ELSE a

TplDefault(d, v) == IF Truthy(v) THEN v ELSE d

PodDisruptionBudgets == {[minAvailable |-> a, maxUnavailable |-> b] :
                            a \in ChartValues, b \in ChartValues}

\* the body shared by the three helpers, on the budget each of them reads
RenderBudget(pdb, path) ==
    IF Truthy(TplAnd(pdb.minAvailable, pdb.maxUnavailable))
    THEN [failed |-> TRUE,
          message |-> <<"Cannot set both", path, "minAvailable", "maxUnavailable">>,
          fields |-> {}]
    ELSE [failed |-> FALSE, message |-> <<>>,
          fields |->
             (IF ~Truthy(pdb.maxUnavailable)
              THEN {[name |-> "minAvailable",
                     value |-> TplDefault([kind |-> "int", n |-> 1], pdb.minAvailable)]}
              ELSE {})
             \cup
             (IF Truthy(pdb.maxUnavailable)
              THEN {[name |-> "maxUnavailable", value |-> pdb.maxUnavailable]}
              ELSE {})]

podDisruptionBudget_spec(Values) ==
    RenderBudget(Values.podDisruptionBudget, ".Values.podDisruptionBudget")

webhook_podDisruptionBudget_spec(Values) ==
    RenderBudget(Values.webhook.podDisruptionBudget, ".Values.webhook.podDisruptionBudget")

cainjector_podDisruptionBudget_spec(Values) ==
    RenderBudget(Values.cainjector.podDisruptionBudget,
                 ".Values.cainjector.podDisruptionBudget")

Helpers == {"podDisruptionBudget.spec", "webhook.podDisruptionBudget.spec",
            "cainjector.podDisruptionBudget.spec"}

Include(helper, Values) ==
    IF helper = "podDisruptionBudget.spec" THEN podDisruptionBudget_spec(Values)
    ELSE IF helper = "webhook.podDisruptionBudget.spec"
    THEN webhook_podDisruptionBudget_spec(Values)
    ELSE cainjector_podDisruptionBudget_spec(Values)

\* the budget the helper is about, with the given budget for the other two
ValuesFor(helper, pdb, other) ==
    [podDisruptionBudget |-> IF helper = "podDisruptionBudget.spec" THEN pdb ELSE other,
     webhook |-> [podDisruptionBudget |->
                     IF helper = "webhook.podDisruptionBudget.spec" THEN pdb ELSE other],
     cainjector |-> [podDisruptionBudget |->
                        IF helper = "cainjector.podDisruptionBudget.spec" THEN pdb ELSE other]]

OtherBudgets ==
    {[minAvailable |-> NilValue, maxUnavailable |-> NilValue],
     [minAvailable |-> [kind |-> "int", n |-> 2],
      maxUnavailable |-> [kind |-> "int", n |-> 2]]}

RenderInputs ==
    {[op |-> "render", stage |-> "input", helper |-> h, pdb |-> b,
      Values |-> ValuesFor(h, b, o)] :
        h \in Helpers, b \in PodDisruptionBudgets, o \in OtherBudgets}

Render ==
    /\ fn.op = "render"
    /\ fn.stage = "input"
    /\ fn' = [op |-> "render", stage |-> "rendered", helper |-> fn.helper, pdb |-> fn.pdb,
              Values |-> fn.Values, out |-> Include(fn.helper, fn.Values)]
    /\ UNCHANGED <<metrics, inst, venafi>>
    /\ UNCHANGED syncVars
    /\ UNCHANGED shimVars
    /\ UNCHANGED pureVars

-----------------------------------------------------------------------------
(* Generated deep copies.  Memory is a list of cells; an address is an      *)
(* index into it and 0 is nil.  A pointer is the address of the cell that   *)
(* holds the value, a slice the address of the cell that holds its          *)
(* elements; the cell of a Duration is [duration], of a Time [time], of an  *)
(* int [int], of a slice [strings], [usages], [bytes] or [conditions].  CertificateSpec is modelled with the fields SecretName,       *)
(* IssuerRef, Duration, DNSNames, Usages and Keystores, CertificateStatus   *)
(* with Conditions, NotAfter and Revision; their other fields are copied by *)
(* the same statements as these.                                            *)

Nil == [isNil |-> TRUE]

Some(v) == [isNil |-> FALSE, v |-> v]

Kept(h) == [h |-> h, a |-> 0]

\* a new cell holding v
New(h, v) == [h |-> Append(h, v), a |-> Len(h) + 1]

\* the cell of an optional value
StoreOpt(h, d) == IF d.isNil THEN Kept(h) ELSE New(h, d.v)

LoadOpt(h, a) == IF a = 0 THEN Nil ELSE Some(h[a])

StoreKeystores(h, d) ==
    IF d.isNil THEN Kept(h)
    ELSE LET j == StoreOpt(h, d.v.JKS)
             q == StoreOpt(j.h, d.v.PKCS12)
         IN  New(q.h, [JKS |-> j.a, PKCS12 |-> q.a])

LoadKeystores(h, a) ==
    IF a = 0 THEN Nil
    ELSE Some([JKS |-> LoadOpt(h, h[a].JKS), PKCS12 |-> LoadOpt(h, h[a].PKCS12)])

StoreCertificateSpec(h, d) ==
    LET du == StoreOpt(h, d.Duration)
        dn == StoreOpt(du.h, d.DNSNames)
        us == StoreOpt(dn.h, d.Usages)
        ks == StoreKeystores(us.h, d.Keystores)
    IN  New(ks.h, [SecretName |-> d.SecretName, IssuerRef |-> d.IssuerRef,
                   Duration |-> du.a, DNSNames |-> dn.a, Usages |-> us.a,
                   Keystores |-> ks.a])

LoadCertificateSpec(h, a) ==
    [SecretName |-> h[a].SecretName, IssuerRef |-> h[a].IssuerRef,
     Duration |-> LoadOpt(h, h[a].Duration), DNSNames |-> LoadOpt(h, h[a].DNSNames),
     Usages |-> LoadOpt(h, h[a].Usages), Keystores |-> LoadKeystores(h, h[a].Keystores)]

\* the elements of a Conditions slice, each with the cell of its time
RECURSIVE StoreConditions(_, _, _, _)
StoreConditions(h, ds, i, acc) ==
    IF i > Len(ds) THEN [h |-> h, v |-> acc]
    ELSE LET t == StoreOpt(h, ds[i].LastTransitionTime)
         IN  StoreConditions(t.h, ds, i + 1,
                 Append(acc, [Type |-> ds[i].Type, Status |-> ds[i].Status,
                              LastTransitionTime |-> t.a]))

LoadConditions(h, a) ==
    IF a = 0 THEN Nil
    ELSE Some([i \in 1..Len(h[a].conditions) |->
                 [Type |-> h[a].conditions[i].Type, Status |-> h[a].conditions[i].Status,
                  LastTransitionTime |->
                      LoadOpt(h, h[a].conditions[i].LastTransitionTime)]])

StoreCertificateStatus(h, d) ==
    LET cs == IF d.Conditions.isNil THEN Kept(h)
              ELSE LET r == StoreConditions(h, d.Conditions.v, 1, <<>>)
                   IN  New(r.h, [conditions |-> r.v])
        na == StoreOpt(cs.h, d.NotAfter)
        re == StoreOpt(na.h, d.Revision)
    IN  New(re.h, [Conditions |-> cs.a, NotAfter |-> na.a, Revision |-> re.a])

LoadCertificateStatus(h, a) ==
    [Conditions |-> LoadConditions(h, h[a].Conditions),
     NotAfter |-> LoadOpt(h, h[a].NotAfter), Revision |-> LoadOpt(h, h[a].Revision)]

StoreVaultIssuer(h, d) ==
    LET ca == StoreOpt(h, d.CABundle)
    IN  New(ca.h, [Server |-> d.Server, Path |-> d.Path, Auth |-> d.Auth,
                   CABundle |-> ca.a])

LoadVaultIssuer(h, a) ==
    [Server |-> h[a].Server, Path |-> h[a].Path, Auth |-> h[a].Auth,
     CABundle |-> LoadOpt(h, h[a].CABundle)]

\* *out = new(T); **out = **in, and *out = make([]T, len(*in)); copy(*out, *in)
CopyCell(h, a) == IF a = 0 THEN Kept(h) ELSE New(h, h[a])

\* CertificateKeystores.DeepCopyInto: [h, out]
CertificateKeystores_DeepCopyInto(h, in) ==
    LET j == CopyCell(h, in.JKS)
        q == CopyCell(j.h, in.PKCS12)
    IN  [h |-> q.h, out |-> [in EXCEPT !.JKS = j.a, !.PKCS12 = q.a]]

\* CertificateSpec.DeepCopyInto that stops after *out = *in
CertificateSpec_DeepCopyInto_shallow(h, in) == [h |-> h, out |-> in]

\* CertificateSpec.DeepCopyInto: [h, out]
CertificateSpec_DeepCopyInto(h, in) ==
    LET du == CopyCell(h, in.Duration)
        dn == CopyCell(du.h, in.DNSNames)
        ks == IF in.Keystores = 0 THEN Kept(dn.h)
              ELSE LET r == CertificateKeystores_DeepCopyInto(dn.h, dn.h[in.Keystores])
                   IN  New(r.h, r.out)
        us == CopyCell(ks.h, in.Usages)
    IN  [h |-> us.h,
         out |-> [in EXCEPT !.Duration = du.a, !.DNSNames = dn.a,
                            !.Keystores = ks.a, !.Usages = us.a]]

\* CertificateCondition.DeepCopyInto
CertificateCondition_DeepCopyInto(h, in) ==
    LET t == CopyCell(h, in.LastTransitionTime)
    IN  [h |-> t.h, out |-> [in EXCEPT !.LastTransitionTime = t.a]]

\* the loop over the Conditions of CertificateStatus.DeepCopyInto
RECURSIVE CopyConditions(_, _, _, _)
CopyConditions(h, in, i, out) ==
    IF i > Len(in) THEN [h |-> h, out |-> out]
    ELSE LET r == CertificateCondition_DeepCopyInto(h, in[i])
         IN  CopyConditions(r.h, in, i + 1, Append(out, r.out))

\* CertificateStatus.DeepCopyInto
CertificateStatus_DeepCopyInto(h, in) ==
    LET cs == IF in.Conditions = 0 THEN Kept(h)
              ELSE LET r == CopyConditions(h, h[in.Conditions].conditions, 1, <<>>)
                   IN  New(r.h, [conditions |-> r.out])
        na == CopyCell(cs.h, in.NotAfter)
        re == CopyCell(na.h, in.Revision)
    IN  [h |-> re.h,
         out |-> [in EXCEPT !.Conditions = cs.a, !.NotAfter = na.a, !.Revision = re.a]]

\* VaultIssuer.DeepCopyInto (v1alpha1): Auth holds no pointer
VaultIssuer_DeepCopyInto(h, in) ==
    LET ca == CopyCell(h, in.CABundle)
    IN  [h |-> ca.h, out |-> [in EXCEPT !.CABundle = ca.a]]

APITypes == {"CertificateSpec", "CertificateStatus", "VaultIssuer"}

DeepCopyInto(type, h, in) ==
    IF type = "CertificateSpec" THEN CertificateSpec_DeepCopyInto(h, in)
    ELSE IF type = "CertificateStatus" THEN CertificateStatus_DeepCopyInto(h, in)
    ELSE VaultIssuer_DeepCopyInto(h, in)

\* DeepCopy: nil for nil, else out := new(T); in.DeepCopyInto(out)
DeepCopy(type, h, in) ==
    IF in = 0 THEN Kept(h)
    ELSE LET r == DeepCopyInto(type, h, h[in])
         IN  New(r.h, r.out)

Load(type, h, a) ==
    IF a = 0 THEN Nil
    ELSE IF type = "CertificateSpec" THEN Some(LoadCertificateSpec(h, a))
    ELSE IF type = "CertificateStatus" THEN Some(LoadCertificateStatus(h, a))
    ELSE Some(LoadVaultIssuer(h, a))

NonNil(as) == as \ {0}

\* the cells reachable from the object at a
Cells(type, h, a) ==
    IF a = 0 THEN {}
    ELSE IF type = "CertificateSpec"
    THEN {a} \cup NonNil({h[a].Duration, h[a].DNSNames, h[a].Usages, h[a].Keystores})
             \cup (IF h[a].Keystores = 0 THEN {}
                   ELSE NonNil({h[h[a].Keystores].JKS, h[h[a].Keystores].PKCS12}))
    ELSE IF type = "CertificateStatus"
    THEN {a} \cup NonNil({h[a].Conditions, h[a].NotAfter, h[a].Revision})
             \cup (IF h[a].Conditions = 0 THEN {}
                   ELSE NonNil({h[h[a].Conditions].conditions[i].LastTransitionTime :
                                   i \in 1..Len(h[h[a].Conditions].conditions)}))
    ELSE {a} \cup NonNil({h[a].CABundle})

Mutations ==
    {"SecretName", "Duration", "DNSNames", "Usages", "Keystores", "Keystores.JKS",
     "Conditions", "Conditions.LastTransitionTime", "NotAfter", "Revision",
     "Server", "CABundle"}

\* the object at a has the field, slice element or pointer target to write
CanMutate(type, h, a, m) ==
    /\ a # 0
    /\ IF type = "CertificateSpec"
       THEN \/ m = "SecretName"
            \/ m = "Duration" /\ h[a].Duration # 0
            \/ m = "DNSNames" /\ h[a].DNSNames # 0 /\ Len(h[h[a].DNSNames].strings) > 0
            \/ m = "Usages" /\ h[a].Usages # 0 /\ Len(h[h[a].Usages].usages) > 0
            \/ m = "Keystores" /\ h[a].Keystores # 0 /\ h[h[a].Keystores].JKS # 0
            \/ m = "Keystores.JKS" /\ h[a].Keystores # 0 /\ h[h[a].Keystores].JKS # 0
       ELSE IF type = "CertificateStatus"
       THEN \/ m = "Conditions" /\ h[a].Conditions # 0 /\ Len(h[h[a].Conditions].conditions) > 0
            \/ /\ m = "Conditions.LastTransitionTime"
               /\ h[a].Conditions # 0 /\ Len(h[h[a].Conditions].conditions) > 0
               /\ h[h[a].Conditions].conditions[1].LastTransitionTime # 0
            \/ m = "NotAfter" /\ h[a].NotAfter # 0
            \/ m = "Revision" /\ h[a].Revision # 0
       ELSE \/ m = "Server"
            \/ m = "CABundle" /\ h[a].CABundle # 0 /\ Len(h[h[a].CABundle].bytes) > 0

\* the memory after the write through the object at a
Mutate(h, a, m) ==
    IF m = "SecretName" THEN [h EXCEPT ![a].SecretName = "mutated"]
    ELSE IF m = "Server" THEN [h EXCEPT ![a].Server = "mutated"]
    ELSE IF m = "Duration" THEN [h EXCEPT ![h[a].Duration].duration = "mutated"]
    ELSE IF m = "NotAfter" THEN [h EXCEPT ![h[a].NotAfter].time = "mutated"]
    ELSE IF m = "Revision" THEN [h EXCEPT ![h[a].Revision].int = @ + 1]
    ELSE IF m = "DNSNames" THEN [h EXCEPT ![h[a].DNSNames].strings[1] = "mutated"]
    ELSE IF m = "Usages" THEN [h EXCEPT ![h[a].Usages].usages[1] = "mutated"]
    ELSE IF m = "CABundle" THEN [h EXCEPT ![h[a].CABundle].bytes[1] = (@ + 1) % 256]
    ELSE IF m = "Keystores" THEN [h EXCEPT ![h[a].Keystores].JKS = 0]
    ELSE IF m = "Keystores.JKS"
    THEN [h EXCEPT ![h[h[a].Keystores].JKS].Create = ~@]
    ELSE IF m = "Conditions" THEN [h EXCEPT ![h[a].Conditions].conditions[1].Status = "mutated"]
    ELSE [h EXCEPT ![h[h[a].Conditions].conditions[1].LastTransitionTime].time = "mutated"]

Durations == {Nil, Some([duration |-> "1h"])}

StringSlices ==
    {Nil} \cup {Some([strings |-> x]) :
                x \in {<<>>, <<"a.example">>, <<"a.example", "b.example">>}}

UsageSlices == {Nil, Some([usages |-> <<"digital signature">>])}

KeystoreValues ==
    {Nil, Some([JKS |-> Nil, PKCS12 |-> Nil]),
     Some([JKS |-> Some([Create |-> TRUE, PasswordSecretRef |-> "jks-password"]),
           PKCS12 |-> Nil]),
     Some([JKS |-> Some([Create |-> FALSE, PasswordSecretRef |-> "jks-password"]),
           PKCS12 |-> Some([Create |-> TRUE, PasswordSecretRef |-> "p12-password"])])}

CertificateSpecValues ==
    {[SecretName |-> "tls", IssuerRef |-> [name |-> "ca", kind |-> "Issuer"],
      Duration |-> du, DNSNames |-> dn, Usages |-> us, Keystores |-> ks] :
        du \in Durations, dn \in StringSlices, us \in UsageSlices, ks \in KeystoreValues}

ConditionValues ==
    {[Type |-> "Ready", Status |-> "True", LastTransitionTime |-> Some([time |-> "t1"])],
     [Type |-> "Issuing", Status |-> "False", LastTransitionTime |-> Nil]}

CertificateStatusValues ==
    {[Conditions |-> cs, NotAfter |-> na, Revision |-> re] :
        cs \in {Nil} \cup {Some(x) : x \in SeqsUpTo(ConditionValues, MaxConditions)},
        na \in {Nil, Some([time |-> "t2"])}, re \in {Nil, Some([int |-> 1])}}

VaultIssuerValues ==
    {[Server |-> "https://vault", Path |-> "pki/sign", Auth |-> [TokenSecretRef |-> "token"],
      CABundle |-> ca] :
        ca \in {Nil, Some([bytes |-> <<>>]), Some([bytes |-> <<48, 255>>])}}

NoMemory == <<>>

DeepCopyInput(type, r) ==
    [op |-> "deepcopy", stage |-> "input", type |-> type, h |-> r.h, in |-> r.a,
     out |-> 0, was |-> Load(type, r.h, r.a), target |-> "", m |-> ""]

DeepCopyInputs ==
    {DeepCopyInput("CertificateSpec", StoreCertificateSpec(NoMemory, d)) :
        d \in CertificateSpecValues}
    \cup {DeepCopyInput("CertificateStatus", StoreCertificateStatus(NoMemory, d)) :
            d \in CertificateStatusValues}
    \cup {DeepCopyInput("VaultIssuer", StoreVaultIssuer(NoMemory, d)) :
            d \in VaultIssuerValues}
    \cup {DeepCopyInput(t, Kept(NoMemory)) : t \in APITypes}

FnFrame ==
    /\ UNCHANGED <<metrics, inst, venafi>>
    /\ UNCHANGED syncVars
    /\ UNCHANGED shimVars
    /\ UNCHANGED pureVars

\* out := in.DeepCopy()
CallDeepCopy ==
    /\ fn.op = "deepcopy"
    /\ fn.stage = "input"
    /\ LET r == DeepCopy(fn.type, fn.h, fn.in)
       IN  fn' = [fn EXCEPT !.stage = "copied", !.h = r.h, !.out = r.a]
    /\ FnFrame

\* a write to a field, a slice element or a pointer target of the copy
MutateCopy ==
    /\ fn.op = "deepcopy"
    /\ fn.stage = "copied"
    /\ \E m \in Mutations :
          /\ CanMutate(fn.type, fn.h, fn.out, m)
          /\ fn' = [fn EXCEPT !.stage = "mutated", !.target = "copy", !.m = m,
                              !.h = Mutate(fn.h, fn.out, m)]
    /\ FnFrame

\* the same write to the original
MutateOriginal ==
    /\ fn.op = "deepcopy"
    /\ fn.stage = "copied"
    /\ \E m \in Mutations :
          /\ CanMutate(fn.type, fn.h, fn.in, m)
          /\ fn' = [fn EXCEPT !.stage = "mutated", !.target = "original", !.m = m,
                              !.h = Mutate(fn.h, fn.in, m)]
    /\ FnFrame

InitFn ==
    /\ fn \in ConvertInputs \cup DefaultsInputs \cup RenderInputs \cup DeepCopyInputs
    /\ metrics = [on |-> FALSE]
    /\ inst = [step |-> "idle"]
    /\ venafi = [step |-> "idle"]
    /\ PureIdle
    /\ SyncIdle
    /\ ShimIdle

NextFn ==
    \/ Convert
    \/ ConvertBack
    \/ SetDefaults
    \/ SetDefaultsAgain
    \/ Render
    \/ CallDeepCopy
    \/ MutateCopy
    \/ MutateOriginal

SpecFn == InitFn /\ [][NextFn]_vars

IsSet(v) == v.kind # "nil"

\* C30: each of the three helpers fails with the mutual-exclusion error when
\* both minAvailable and maxUnavailable are set, renders minAvailable: 1 when
\* neither is set, and otherwise renders exactly one of the two fields, with
\* the configured value when one was configured.
C30_BudgetExactlyOneField ==
    (fn.op = "render" /\ fn.stage = "rendered") =>
        /\ (IsSet(fn.pdb.minAvailable) /\ IsSet(fn.pdb.maxUnavailable)) =>
              (fn.out.failed /\ fn.out.message[1] = "Cannot set both")
        /\ (~IsSet(fn.pdb.minAvailable) /\ ~IsSet(fn.pdb.maxUnavailable)) =>
              /\ ~fn.out.failed
              /\ fn.out.fields = {[name |-> "minAvailable", value |-> [kind |-> "int", n |-> 1]]}
        /\ ~fn.out.failed =>
              /\ Cardinality(fn.out.fields) = 1
              /\ (IsSet(fn.pdb.minAvailable) /\ ~IsSet(fn.pdb.maxUnavailable)) =>
                    fn.out.fields = {[name |-> "minAvailable", value |-> fn.pdb.minAvailable]}
              /\ (IsSet(fn.pdb.maxUnavailable) /\ ~IsSet(fn.pdb.minAvailable)) =>
                    fn.out.fields = {[name |-> "maxUnavailable",
                                      value |-> fn.pdb.maxUnavailable]}

-----------------------------------------------------------------------------
(* ctl install: runInstall, one action per numbered step of the function.  *)
(* The calls into the helm and verify packages answer as the cluster and   *)
(* the chart make them answer: each is a choice among its outcomes.        *)

CRDNames == {"certificates.cert-manager.io", "issuers.cert-manager.io"}

FoundExistingCRDs == "Found existing installed cert-manager crds!"

NotAllDeploymentsReady == "FAILED! Not all deployments are ready."

NoCall == <<>>

\* line 152, without the flag
existingCRDsStop_ignoresFlag(o, installedCrds) == installedCrds # {}

\* line 152: the user has to confirm when CRDs are already installed
existingCRDsStop(o, installedCrds) == ~o.SkipInstallCheck /\ installedCrds # {}

\* lines 127-129
DryRunSettings(i) ==
    [i EXCEPT !.client = [DryRun |-> TRUE, IsUpgrade |-> TRUE],
              !.chartValues = [installCRDs |-> "true"]]

\* lines 168-169 only
InstallSettings_keepsValues(i) ==
    [i EXCEPT !.client = [DryRun |-> FALSE, IsUpgrade |-> FALSE]]

\* lines 168-170
InstallSettings(i) ==
    [i EXCEPT !.client = [DryRun |-> FALSE, IsUpgrade |-> FALSE],
              !.chartValues = [installCRDs |-> "false"]]

\* what a step leaves in the record of calls
Called(i, name, ok) ==
    Append(i.calls, [name |-> name, ok |-> ok, DryRun |-> i.client.DryRun,
                     installCRDs |-> i.chartValues.installCRDs])

Returned(i, name, out) ==
    [i EXCEPT !.calls = Called(i, name, out = "ok"),
              !.ret = IF out = "ok" THEN i.ret ELSE out]

\* cmapiChecker.Check: the error of the dry-run create, wrapped
Check(createErr) ==
    IF createErr = "nil" THEN "nil" ELSE "error creating Certificate: " \o createErr

\* lines 197-214: what runInstall returns once verify.Verify has answered;
\* err is the error of the call of line 191
AfterVerify(err, result) ==
    IF err # "nil" THEN err
    ELSE IF ~result.DeploymentsSuccess THEN NotAllDeploymentsReady
    ELSE IF result.CertificateError # "nil" THEN err
    ELSE "nil"

VerifyResults ==
    {[DeploymentsSuccess |-> d, CertificateError |-> Check(c)] :
        d \in BOOLEAN, c \in {"nil", "webhook unreachable"}}

InitInstall ==
    /\ \E sic \in BOOLEAN, sv \in BOOLEAN, crds \in SUBSET CRDNames,
          cluster \in SUBSET CRDNames, user \in {"unset", "true", "false"} :
          inst = [step |-> "start", SkipInstallCheck |-> sic, SkipVerify |-> sv,
                  crds |-> crds, cluster0 |-> cluster, cluster |-> cluster,
                  chartValues |-> [installCRDs |-> user],
                  client |-> [DryRun |-> FALSE, IsUpgrade |-> FALSE],
                  release |-> "none", calls |-> NoCall, ret |-> "running",
                  ready |-> FALSE, certErr |-> "nil"]
    /\ metrics = [on |-> FALSE]
    /\ fn = [op |-> "none"]
    /\ venafi = [step |-> "idle"]
    /\ PureIdle
    /\ SyncIdle
    /\ ShimIdle

InstallRunning(step) == inst.step = step /\ inst.ret = "running"

InstallFrame ==
    /\ UNCHANGED <<metrics, fn, venafi>>
    /\ UNCHANGED syncVars
    /\ UNCHANGED shimVars
    /\ UNCHANGED pureVars

\* 1. find chart, load it, check it is installable, merge the values
FindChart ==
    /\ InstallRunning("start")
    /\ \E out \in {"ok", "LocateChart failed", "LoadChart failed", "not installable",
                   "MergeValues failed"} :
          inst' = [inst EXCEPT !.step = "found",
                               !.ret = IF out = "ok" THEN "running" ELSE out]
    /\ InstallFrame

\* 2. and 3. dry-run render with the CRDs, collect the CRDs of the render
DryRunRender ==
    /\ InstallRunning("found")
    /\ \E out \in {"ok", "Run failed", "GetChartResourceInfo failed",
                   "FilterCrdResources failed"} :
          inst' = [Returned(DryRunSettings(inst), "render", out) EXCEPT !.step = "rendered"]
    /\ InstallFrame

\* 4. fetch the CRDs that exist already; stop unless told to skip the check
CheckInstalledCRDs ==
    /\ InstallRunning("rendered")
    /\ \E out \in {"ok", "FetchResources failed"} :
          LET installedCrds == inst.crds \cap inst.cluster
              stop == out = "ok" /\ existingCRDsStop(inst, installedCrds)
          IN  inst' = [Returned(inst, "check", IF stop THEN FoundExistingCRDs ELSE out)
                         EXCEPT !.step = "checked"]
    /\ InstallFrame

\* 5. install the CRDs; a failed apply may have created some of them
ApplyCRDs ==
    /\ InstallRunning("checked")
    /\ IF inst.crds # {}
       THEN \E out \in {"ok", "ApplyCRDs failed"} :
              \E created \in SUBSET inst.crds :
                 /\ out = "ok" => created = inst.crds
                 /\ out # "ok" => created # inst.crds
                 /\ inst' = [Returned(inst, "apply", out) EXCEPT
                               !.step = "applied",
                               !.cluster = inst.cluster \cup created]
       ELSE inst' = [inst EXCEPT !.step = "applied"]
    /\ InstallFrame

\* 6. install the chart
InstallChart ==
    /\ InstallRunning("applied")
    /\ \E out \in {"ok", "Run failed"} :
          inst' = [Returned(InstallSettings(inst), "install", out) EXCEPT
                      !.step = "installed",
                      !.release = IF out = "ok" THEN "deployed" ELSE "none"]
    /\ InstallFrame

\* 7. validate the installation
VerifyInstallation ==
    /\ InstallRunning("installed")
    /\ ~inst.SkipVerify
    /\ \/ \E out \in {"FilterDeploymentResources failed", "ToRESTConfig failed"} :
             inst' = [inst EXCEPT !.step = "done", !.ret = out]
       \/ \E err \in {"nil", "Verify failed"}, result \in VerifyResults :
             /\ err # "nil" => result = [DeploymentsSuccess |-> FALSE,
                                         CertificateError |-> "nil"]
             /\ inst' = [inst EXCEPT
                   !.step = "done",
                   !.calls = Called(inst, "verify", err = "nil"),
                   !.certErr = IF err = "nil" THEN result.CertificateError ELSE "nil",
                   !.ready = err = "nil" /\ result.DeploymentsSuccess,
                   !.ret = AfterVerify(err, result)]
    /\ InstallFrame

\* 7. skipped
ReturnUnverified ==
    /\ InstallRunning("installed")
    /\ inst.SkipVerify
    /\ inst' = [inst EXCEPT !.step = "done", !.ret = "nil"]
    /\ InstallFrame

NextInstall ==
    \/ FindChart
    \/ DryRunRender
    \/ CheckInstalledCRDs
    \/ ApplyCRDs
    \/ InstallChart
    \/ VerifyInstallation
    \/ ReturnUnverified

SpecInstall == InitInstall /\ [][NextInstall]_vars

InstallOn == inst.step # "idle"

CallNames == {inst.calls[k].name : k \in 1..Len(inst.calls)}

ExistingCRDs == inst.crds \cap inst.cluster0

\* C27: when a CRD of the chart exists already and --skip-install-check is
\* not set, runInstall returns an error, after the dry-run render when the
\* error is the one about existing CRDs, and nothing is changed: no CRD is
\* applied and the chart is not installed; with --skip-install-check the
\* existing CRDs never are the reason to stop.
C27_ExistingCRDsStopInstall ==
    InstallOn =>
        /\ (~inst.SkipInstallCheck /\ ExistingCRDs # {}) =>
              /\ "apply" \notin CallNames
              /\ "install" \notin CallNames
              /\ inst.cluster = inst.cluster0
              /\ inst.release = "none"
              /\ inst.ret # "nil"
              /\ inst.step \in {"checked", "applied", "installed", "done"} =>
                    inst.ret # "running"
        /\ inst.ret = FoundExistingCRDs =>
              /\ ~inst.SkipInstallCheck
              /\ ExistingCRDs # {}
              /\ Len(inst.calls) = 2
              /\ inst.calls[1].name = "render" /\ inst.calls[1].DryRun /\ inst.calls[1].ok

C27_Witness ==
    /\ InstallOn
    /\ ~inst.SkipInstallCheck
    /\ ExistingCRDs = {"issuers.cert-manager.io"}
    /\ inst.crds = CRDNames
    /\ inst.ret = FoundExistingCRDs
    /\ inst.step = "checked"

\* the other half of C27: with the flag set the install goes through
C27_SkipCheckInstalls ==
    /\ InstallOn
    /\ inst.SkipInstallCheck
    /\ ExistingCRDs # {}
    /\ inst.release = "deployed"
    /\ inst.ret = "nil"

StepRank(name) ==
    IF name = "render" THEN 1
    ELSE IF name = "check" THEN 2
    ELSE IF name = "apply" THEN 3
    ELSE IF name = "install" THEN 4
    ELSE 5

\* C28: the steps of a run occur in the order dry-run render with
\* installCRDs true, check for existing CRDs, apply of the CRDs, install with
\* installCRDs false and DryRun false, verification; a step runs only when
\* every earlier one succeeded; the install never runs with installCRDs true
\* and never before the rendered CRDs were applied.
C28_StepsInOrder ==
    InstallOn =>
        /\ \A j \in 1..Len(inst.calls) :
              /\ \A k \in 1..(j - 1) :
                    /\ StepRank(inst.calls[k].name) < StepRank(inst.calls[j].name)
                    /\ inst.calls[k].ok
              /\ inst.calls[j].name = "render" =>
                    inst.calls[j].DryRun /\ inst.calls[j].installCRDs = "true"
              /\ inst.calls[j].name = "install" =>
                    /\ ~inst.calls[j].DryRun
                    /\ inst.calls[j].installCRDs = "false"
                    /\ inst.crds \subseteq inst.cluster
                    /\ j >= 3 /\ inst.calls[1].name = "render" /\ inst.calls[2].name = "check"
                    /\ inst.crds # {} => (j = 4 /\ inst.calls[3].name = "apply")
              /\ inst.calls[j].name = "verify" => inst.calls[j - 1].name = "install"
        /\ inst.release = "deployed" => "install" \in CallNames

C28_Witness ==
    /\ InstallOn
    /\ Len(inst.calls) = 5
    /\ inst.calls[3].name = "apply"
    /\ inst.calls[4].name = "install"
    /\ inst.calls[4].installCRDs = "false"
    /\ inst.calls[5].name = "verify"
    /\ inst.cluster0 = {}
    /\ inst.cluster = CRDNames

\* C29: when verification is not skipped, runInstall returns nil only if the
\* call of Verify succeeded, every Deployment became ready and the check of
\* the canary Certificate reported no error; it returns an error when that
\* check reports one; with --skip-verify nothing is verified.
C29_NilOnlyWhenVerified ==
    InstallOn =>
        /\ (~inst.SkipVerify /\ inst.ret = "nil") =>
              /\ "verify" \in CallNames
              /\ inst.calls[Len(inst.calls)].ok
              /\ inst.ready
              /\ inst.certErr = "nil"
        /\ inst.certErr # "nil" /\ inst.ready => inst.ret \notin {"nil", "running"}
        /\ inst.SkipVerify => "verify" \notin CallNames

-----------------------------------------------------------------------------
(* The Venafi issuer: Issue.  The pki helpers and the vcert client answer  *)
(* as the Certificate and the server make them answer: a scenario names    *)
(* the first call that fails, if any, and the chain the server returns.    *)

MaxIssueCalls == 3

PEMChains == SeqsUpTo({"pem-root", "pem-intermediate"}, MaxChain)

NilResponse == [isNil |-> TRUE, PrivateKey |-> "", Certificate |-> <<>>, CA |-> ""]

IssueFailures ==
    {"GeneratePrivateKeyForCertificate", "PublicKeyForPrivateKey", "GenerateTemplate",
     "GenerateRequest", "RequestCertificate", "ErrCertificatePending",
     "ErrRetrieveCertificateTimeout", "RetrieveCertificate", "EncodePrivateKey"}

IssueScenarios ==
    {[failAt |-> f, Chain |-> <<>>] : f \in IssueFailures \ {"EncodePrivateKey"}}
    \cup {[failAt |-> f, Chain |-> c] : f \in {"none", "EncodePrivateKey"}, c \in PEMChains}

\* strings.Join(cs, "\n"): the elements with a separator between neighbours
RECURSIVE Join(_, _)
Join(cs, sep) ==
    IF Len(cs) = 0 THEN <<>>
    ELSE IF Len(cs) = 1 THEN <<cs[1]>>
    ELSE <<cs[1], sep>> \o Join(Tail(cs), sep)

\* pki.EncodePrivateKey(signeeKey)
EncodePrivateKey(key) == <<"PEM", key>>

IssueReturn(resp, err, panic, sent) ==
    [resp |-> resp, err |-> err, panic |-> panic, sent |-> sent]

\* lines 192-198: pemCollection.Chain[0] of an empty chain is an index out
\* of range, a run-time panic
IssueResponse(key, pemCollection) ==
    IF Len(pemCollection.Chain) = 0
    THEN IssueReturn(NilResponse, "nil", TRUE, <<>>)
    ELSE IssueReturn(
            [isNil |-> FALSE, PrivateKey |-> EncodePrivateKey(key),
             Certificate |-> Join(<<pemCollection.Certificate>> \o pemCollection.Chain, "\n"),
             CA |-> pemCollection.Chain[1]],
            "nil", FALSE, <<>>)

\* lines 91-98 returning the error of the key generation
KeyGenerationFailed_returnsErr ==
    IssueReturn(NilResponse, "GeneratePrivateKeyForCertificate", FALSE, <<>>)

\* lines 91-98: no retry, the input of the caller is what is wrong
KeyGenerationFailed == IssueReturn(NilResponse, "nil", FALSE, <<>>)

\* Venafi.Issue with the private key this call generates; sent lists the
\* calls that reach the Venafi server, each with the key of its request
Issue(key, sc) ==
    LET request == [call |-> "RequestCertificate", PrivateKey |-> key]
        retrieve == [call |-> "RetrieveCertificate", PrivateKey |-> key]
        f == sc.failAt
    IN  IF f = "GeneratePrivateKeyForCertificate"
        THEN KeyGenerationFailed
        ELSE IF f \in {"PublicKeyForPrivateKey", "GenerateTemplate", "GenerateRequest"}
        THEN IssueReturn(NilResponse, f, FALSE, <<>>)
        ELSE IF f = "RequestCertificate"
        THEN IssueReturn(NilResponse, f, FALSE, <<request>>)
        ELSE IF f = "ErrCertificatePending"
        THEN IssueReturn(NilResponse, "Venafi certificate still pending", FALSE,
                         <<request, retrieve>>)
        ELSE IF f = "ErrRetrieveCertificateTimeout"
        THEN IssueReturn(NilResponse, "Timed out waiting for certificate", FALSE,
                         <<request, retrieve>>)
        ELSE IF f = "RetrieveCertificate"
        THEN IssueReturn(NilResponse, f, FALSE, <<request, retrieve>>)
        ELSE IF f = "EncodePrivateKey"
        THEN IssueReturn(NilResponse, f, FALSE, <<request, retrieve>>)
        ELSE LET r == IssueResponse(key, [Certificate |-> "pem-leaf", Chain |-> sc.Chain])
             IN  [r EXCEPT !.sent = <<request, retrieve>>]

NoScenario == [failAt |-> "", Chain |-> <<>>]

InitVenafi ==
    /\ venafi = [step |-> "ready", calls |-> 0, keys |-> 0, server |-> <<>>,
                 sc |-> NoScenario, last |-> IssueReturn(NilResponse, "nil", FALSE, <<>>)]
    /\ metrics = [on |-> FALSE]
    /\ inst = [step |-> "idle"]
    /\ fn = [op |-> "none"]
    /\ PureIdle
    /\ SyncIdle
    /\ ShimIdle

\* one call of Issue; a key is generated unless the generation fails, and
\* the n-th generated key is the key n
IssueCall ==
    /\ venafi.step \in {"ready", "returned"}
    /\ venafi.calls < MaxIssueCalls
    /\ \E sc \in IssueScenarios :
          LET generated == sc.failAt # "GeneratePrivateKeyForCertificate"
              key == venafi.keys + 1
              r == Issue(key, sc)
          IN  venafi' = [step |-> IF r.panic THEN "panicked" ELSE "returned",
                         calls |-> venafi.calls + 1,
                         keys |-> IF generated THEN key ELSE venafi.keys,
                         server |-> venafi.server \o r.sent,
                         sc |-> sc, last |-> r]
    /\ UNCHANGED <<metrics, inst, fn>>
    /\ UNCHANGED syncVars
    /\ UNCHANGED shimVars
    /\ UNCHANGED pureVars

NextVenafi == IssueCall

SpecVenafi == InitVenafi /\ [][NextVenafi]_vars

IssueCalled == venafi.step \in {"returned", "panicked"}

C38_ChainAndCA ==
    (IssueCalled /\ venafi.sc.failAt = "none") =>
        /\ venafi.step = "returned"
        /\ ~venafi.last.resp.isNil
        /\ venafi.last.err = "nil"
        /\ venafi.last.resp.Certificate = Join(<<"pem-leaf">> \o venafi.sc.Chain, "\n")
        /\ venafi.sc.Chain # <<>> => venafi.last.resp.CA = venafi.sc.Chain[1]

-----------------------------------------------------------------------------
(* Properties of the generated deep copies (specification SpecFn).         *)

\* C32: DeepCopy returns a value equal to the original that shares no cell
\* with it; after a write to a field, slice element or pointer target of
\* the copy the original is as it was, and after one to the original the
\* copy is; DeepCopy of a nil pointer is nil.
C32_DeepCopyShares ==
    (fn.op = "deepcopy" /\ fn.stage # "input") =>
        /\ fn.in = 0 => fn.out = 0
        /\ fn.in # 0 =>
              /\ fn.out # 0
              /\ Cells(fn.type, fn.h, fn.in) \cap Cells(fn.type, fn.h, fn.out) = {}
              /\ fn.stage = "copied" =>
                    /\ Load(fn.type, fn.h, fn.out) = fn.was
                    /\ Load(fn.type, fn.h, fn.in) = fn.was
              /\ (fn.stage = "mutated" /\ fn.target = "copy") =>
                    /\ Load(fn.type, fn.h, fn.in) = fn.was
                    /\ Load(fn.type, fn.h, fn.out) # fn.was
              /\ (fn.stage = "mutated" /\ fn.target = "original") =>
                    /\ Load(fn.type, fn.h, fn.out) = fn.was
                    /\ Load(fn.type, fn.h, fn.in) # fn.was

C32_Witness ==
    /\ fn.op = "deepcopy"
    /\ fn.stage = "mutated"
    /\ fn.type = "CertificateSpec"
    /\ fn.target = "copy"
    /\ fn.m = "DNSNames"
    /\ fn.was.v.DNSNames = Some([strings |-> <<"a.example", "b.example">>])
    /\ Load(fn.type, fn.h, fn.out).v.DNSNames = Some([strings |-> <<"mutated", "b.example">>])
    /\ Load(fn.type, fn.h, fn.in).v.DNSNames = Some([strings |-> <<"a.example", "b.example">>])

----------------------------------------------------------------------------
(* The sync function over the annotations of the shim: every combination   *)
(* of the four issuer annotations, the auto-certificate annotation with    *)
(* true and non-true values, the edit-in-place annotation, two settings of *)
(* the controller's defaults, labels, and Certificates left by earlier     *)
(* syncs.                                                                  *)

MaxEntries == 2

Absent == "<absent>"      \* the annotation is not on the object

\* the map m with m[k] = v, or m itself when v is Absent
Put(m, k, v) == IF v = Absent THEN m ELSE MapSet(m, k, v)

IssuerAnnotations(issuer, clusterIssuer, kind, group) ==
    Put(Put(Put(Put(NoAnnotations,
                    IngressIssuerNameAnnotationKey, issuer),
                IngressClusterIssuerNameAnnotationKey, clusterIssuer),
            IssuerKindAnnotationKey, kind),
        IssuerGroupAnnotationKey, group)

IssuerAnnotationSets ==
    {IssuerAnnotations(i, c, k, g) :
        i \in {Absent, "", "ca"}, c \in {Absent, "cca"},
        k \in {Absent, "External"}, g \in {Absent, "example.io"}}

ShimAnnotationSets ==
    IssuerAnnotationSets
    \cup {Put(NoAnnotations, TLSACMEAnnotationKey, v) :
            v \in {"true", "1", "false", "yes"}}
    \cup {Put(IssuerAnnotations(Absent, Absent, Absent, "example.io"),
              TLSACMEAnnotationKey, "true")}
    \cup {Put(a, IngressEditInPlaceAnnotationKey, v) :
            a \in {NoAnnotations,
                   IssuerAnnotations("ca", Absent, Absent, Absent),
                   IssuerAnnotations("ca", Absent, Absent, "example.io"),
                   Put(NoAnnotations, TLSACMEAnnotationKey, "true")},
            v \in {"true", "false"}}

\* controller.IngressShimOptions: no default issuer, or a default
\* ClusterIssuer of another group
ShimOptions ==
    DefaultsSet
    \cup {[DefaultIssuerName |-> "default-ca",
           DefaultIssuerKind |-> ClusterIssuerKind,
           DefaultIssuerGroup |-> "default.io",
           DefaultAutoCertificateAnnotations |-> {TLSACMEAnnotationKey}]}

ObjectLabelSets == {NilLabels, [isNil |-> FALSE, kv |-> {<<"app", "web">>}]}

AnnotatedTLSBlocks ==
    {[secretName |-> "s1", hosts |-> <<"a.example">>],
     [secretName |-> "s2", hosts |-> <<"b.example">>],
     [secretName |-> "s1", hosts |-> <<>>]}

AnnotatedListeners ==
    {Listener("a.example", TRUE, "core", "Secret", "s1"),
     Listener("b.example", TRUE, "core", "Secret", "s2"),
     Listener("a.example", FALSE, "", "", "")}

AnnotatedObjects ==
    {[Object("Ingress", a, t) EXCEPT !.labels = l] :
        a \in ShimAnnotationSets, l \in ObjectLabelSets,
        t \in SeqsUpTo(AnnotatedTLSBlocks, MaxEntries)}
    \cup
    {[Object("Gateway", a, e) EXCEPT !.labels = l] :
        a \in ShimAnnotationSets, l \in ObjectLabelSets,
        e \in SeqsUpTo(AnnotatedListeners, MaxEntries)}

\* the Certificates named s1 that earlier syncs and users can have left:
\* as built for the issuer annotation "ca", with other DNS names and an
\* annotation of its own, with an edited secretName, with the issuerRef
\* of another group, and one that the object does not control
EarlierCertificates(o) ==
    LET c == Certificate("s1", NewControllerRef(o), "s1", <<"a.example">>)
    IN  {c,
         [c EXCEPT !.dnsNames = <<"old.example">>,
                   !.annotations = Put(NoAnnotations, "note", "kept")],
         [c EXCEPT !.secretName = "s2"],
         [c EXCEPT !.issuerRef.group = "old.io"],
         Certificate("s1", NoOwner, "s1", <<"a.example">>)}

AnnotatedStores(o) ==
    {c1 \cup c2 :
        c1 \in {{}} \cup {{c} : c \in EarlierCertificates(o)},
        c2 \in {{}, {Certificate("s2", NewControllerRef(o), "s2", <<"b.example">>)}}}

InitSyncAnnotations ==
    /\ ingLike \in AnnotatedObjects
    /\ defaults \in ShimOptions
    /\ crts \in AnnotatedStores(ingLike)
    /\ rec = NoRec
    /\ ShimIdle
    /\ PureIdle
    /\ ToolIdle

SpecSyncAnnotations == InitSyncAnnotations /\ [][NextSync]_vars

----------------------------------------------------------------------------
(* Properties of the sync function over annotations (specification         *)
(* SpecSyncAnnotations).                                                   *)

HasAnnotation(k) == k \in DOMAIN ingLike.annotations

NothingWritten ==
    /\ rec.created = {} /\ rec.updated = {} /\ rec.deleted = {}
    /\ crts = rec.pre

WarningRecorded ==
    \E e \in rec.events : e.type = EventTypeWarning /\ e.reason = reasonBadConfig

\* the issuer name, kind and group as the claim words them, and the
\* condition under which the annotations are rejected
ExpectedIssuerName ==
    IF HasAnnotation(IngressClusterIssuerNameAnnotationKey)
    THEN ingLike.annotations[IngressClusterIssuerNameAnnotationKey]
    ELSE IF HasAnnotation(IngressIssuerNameAnnotationKey)
    THEN ingLike.annotations[IngressIssuerNameAnnotationKey]
    ELSE defaults.DefaultIssuerName

ExpectedIssuerKind ==
    IF HasAnnotation(IssuerKindAnnotationKey)
    THEN ingLike.annotations[IssuerKindAnnotationKey]
    ELSE IF HasAnnotation(IngressClusterIssuerNameAnnotationKey)
    THEN ClusterIssuerKind
    ELSE IF HasAnnotation(IngressIssuerNameAnnotationKey) THEN IssuerKind
    ELSE defaults.DefaultIssuerKind

ExpectedIssuerGroup ==
    IF HasAnnotation(IssuerGroupAnnotationKey)
    THEN ingLike.annotations[IssuerGroupAnnotationKey]
    ELSE defaults.DefaultIssuerGroup

IssuerAnnotationsRejected ==
    \/ ExpectedIssuerName = ""
    \/ /\ HasAnnotation(IngressIssuerNameAnnotationKey)
       /\ HasAnnotation(IngressClusterIssuerNameAnnotationKey)
    \/ /\ HasAnnotation(IngressClusterIssuerNameAnnotationKey)
       /\ \/ HasAnnotation(IssuerKindAnnotationKey)
          \/ HasAnnotation(IssuerGroupAnnotationKey)

\* C35: issuerForIngressLike returns an error exactly when the resolved
\* name is empty, or issuer and cluster-issuer are both present, or
\* cluster-issuer is present with issuer-kind or issuer-group; otherwise it
\* returns the name, kind and group resolved from the annotations and the
\* defaults.  A sync that gets the error records a warning event, writes
\* nothing and returns nil.
C35_IssuerResolution ==
    LET r == issuerForIngressLike(defaults, ingLike)
    IN  /\ (r.errs > 0) <=> IssuerAnnotationsRejected
        /\ ~IssuerAnnotationsRejected =>
              /\ r.name = ExpectedIssuerName
              /\ r.kind = ExpectedIssuerKind
              /\ r.group = ExpectedIssuerGroup
        /\ (SyncRan /\ Annotated /\ IssuerAnnotationsRejected) =>
              /\ WarningRecorded
              /\ NothingWritten
              /\ rec.result = "nil"

\* a sync of an object whose cluster-issuer annotation comes with an
\* issuer-group annotation only, while the object's Certificate is stale
C35_Witness ==
    /\ SyncRan
    /\ HasAnnotation(IngressClusterIssuerNameAnnotationKey)
    /\ HasAnnotation(IssuerGroupAnnotationKey)
    /\ ~HasAnnotation(IssuerKindAnnotationKey)
    /\ ~HasAnnotation(IngressIssuerNameAnnotationKey)
    /\ ValidTargetNames # {}
    /\ \E c \in rec.pre : ~NotControlledByObject(c) /\ c.dnsNames = <<"old.example">>

\* a sync of an object whose issuer comes from the defaults, with the kind
\* taken from the issuer-kind annotation
C35_WitnessResolved ==
    /\ SyncRan /\ ~IssuerAnnotationsRejected
    /\ ~HasAnnotation(IngressIssuerNameAnnotationKey)
    /\ ~HasAnnotation(IngressClusterIssuerNameAnnotationKey)
    /\ HasAnnotation(IssuerKindAnnotationKey)

\* the object carries an issuer annotation, a cluster-issuer annotation, or
\* a configured auto-certificate annotation whose value parses as true
CarriesShimAnnotation ==
    \/ HasAnnotation(IngressIssuerNameAnnotationKey)
    \/ HasAnnotation(IngressClusterIssuerNameAnnotationKey)
    \/ \E k \in defaults.DefaultAutoCertificateAnnotations :
          HasAnnotation(k) /\ ParseBoolTrue(ingLike.annotations[k])

\* C36: a sync of an object without issuer annotation, cluster-issuer
\* annotation and true auto-certificate annotation writes nothing (it does
\* not delete the Certificates the object controls either), records no
\* event and returns nil; an issuer annotation lets the sync go on whatever
\* its value: with an empty value the sync reaches the issuer resolution
\* and records its warning.
C36_NoShimAnnotationNoSync ==
    /\ (SyncRan /\ ~CarriesShimAnnotation) =>
          /\ NothingWritten
          /\ rec.events = {}
          /\ rec.result = "nil"
    /\ (/\ SyncRan
        /\ \/ HasAnnotation(IngressIssuerNameAnnotationKey)
           \/ HasAnnotation(IngressClusterIssuerNameAnnotationKey)
        /\ IssuerAnnotationsRejected) => WarningRecorded

\* a sync of an object whose auto-certificate annotation does not parse as
\* true, while the object controls a Certificate that none of its entries
\* names
C36_Witness ==
    /\ SyncRan /\ ~CarriesShimAnnotation
    /\ HasAnnotation(TLSACMEAnnotationKey)
    /\ \E c \in rec.pre :
          ~NotControlledByObject(c) /\ c.secretName \notin ReferencedNames

\* a sync of an object whose only shim annotation is an issuer annotation
\* with an empty value
C36_WitnessEmptyValue ==
    /\ SyncRan
    /\ HasAnnotation(IngressIssuerNameAnnotationKey)
    /\ ingLike.annotations[IngressIssuerNameAnnotationKey] = ""
    /\ ~HasAnnotation(IngressClusterIssuerNameAnnotationKey)

EditInPlace ==
    /\ HasAnnotation(IngressEditInPlaceAnnotationKey)
    /\ ingLike.annotations[IngressEditInPlaceAnnotationKey] = "true"

TaggedForEditInPlace(c) ==
    /\ ACMECertificateHTTP01IngressNameOverride \in DOMAIN c.annotations
    /\ c.annotations[ACMECertificateHTTP01IngressNameOverride] = ingLike.name
    /\ IssueTemporaryCertificateAnnotation \in DOMAIN c.annotations
    /\ c.annotations[IssueTemporaryCertificateAnnotation] = "true"

\* C34: for an Ingress with the edit-in-place annotation "true", every
\* Certificate a sync creates or updates is written with the HTTP01
\* ingress-name override annotation equal to the Ingress's name and the
\* issue-temporary-certificate annotation "true".
C34_EditInPlaceTagged ==
    (SyncRan /\ ingLike.kind = "Ingress" /\ EditInPlace) =>
        \A c \in rec.created \cup rec.updated : TaggedForEditInPlace(c)

\* the DNS names computed for the Certificate named n
DesiredHosts(n) ==
    IF ingLike.kind = "Ingress" THEN IngressTLSHosts(ingLike)[n]
    ELSE ValidHostsOf(n)

\* C39: after a sync of an annotated, valid object that returned nil with
\* every API call succeeding, each Certificate the object controls and one
\* of its valid TLS blocks or listeners names has the labels, DNS names,
\* secret name and issuerRef name, kind and group computed from the object.
C39_CertificatesMatchObject ==
    (/\ SyncRan /\ Annotated /\ IssuerResolved /\ ObjectValid
     /\ rec.result = "nil" /\ ~rec.apiFailed)
    =>
        \A c \in crts :
            (~NotControlledByObject(c) /\ c.name \in ValidTargetNames) =>
                /\ c.labels = ingLike.labels
                /\ c.dnsNames = DesiredHosts(c.name)
                /\ c.secretName = c.name
                /\ c.issuerRef = [name |-> ExpectedIssuerName,
                                  kind |-> ExpectedIssuerKind,
                                  group |-> ExpectedIssuerGroup]

\* C33: a sync that follows a sync of the same object that returned nil
\* with every API call succeeding issues no Create, Update or Delete.
C33_SecondSyncWritesNothing ==
    (/\ SyncRan /\ rec.prev.rev = rec.rev
     /\ rec.prev.result = "nil" /\ ~rec.prev.apiFailed)
    =>
        rec.created = {} /\ rec.updated = {} /\ rec.deleted = {}

----------------------------------------------------------------------------
(* Repeated Setup calls on one ACME issuer: each call finds the status the *)
(* previous call left, the account registry as the previous call left it,  *)
(* and the server URL and account key secret as they are by then.          *)

\* an issuer that was never set up: no Ready=True condition, no account URI
NewACMEIssuers ==
    {i \in ACMEIssuers :
        /\ i.status = [ready |-> "False", uri |-> "", lastRegisteredEmail |-> ""]
        /\ i.spec.ExternalAccountBinding = NoEAB}

InitACMESetups ==
    /\ acme \in {[ran |-> FALSE, issuer |-> i, keySecret |-> k, registry |-> FALSE] :
                    i \in NewACMEIssuers, k \in KeySecrets}
    /\ chk = [result |-> "unset"]
    /\ codec = [stage |-> "idle"]
    /\ cmp = [result |-> "unset"]
    /\ vault = [ready |-> "unset"]
    /\ SyncIdle
    /\ ShimIdle
    /\ ToolIdle

\* the issuer as the last Setup call left it, with the server URL sv
IssuerAfterSetup(sv) ==
    [acme.issuer EXCEPT !.spec.Server = sv,
                        !.status = [ready |-> acme.out.ready,
                                    uri |-> acme.out.uri,
                                    lastRegisteredEmail |-> acme.out.lastEmail]]

\* the next Setup call on the issuer; since the last call the server URL
\* may have been edited and the account key secret replaced or removed
SetupACMEAgain ==
    /\ acme.ran
    /\ \E sv \in ACMEServers, k \in {acme.out.secret} \cup KeySecrets :
         \E out \in Setup_ACME(IssuerAfterSetup(sv), k, acme.out.registry) :
            acme' = [ran |-> TRUE, issuer |-> IssuerAfterSetup(sv), keySecret |-> k,
                     registry |-> acme.out.registry, out |-> out]
    /\ UNCHANGED <<ingLike, defaults, crts, rec, cmp, vault, chk, codec>>
    /\ UNCHANGED shimVars
    /\ UNCHANGED toolVars

NextACMESetups == SetupACME \/ SetupACMEAgain

SpecACMESetups == InitACMESetups /\ [][NextACMESetups]_vars

\* C40: whenever Setup returns leaving the issuer's Ready condition False,
\* the account registry holds no client for the issuer, on every return
\* path and after any sequence of Setup calls on the issuer.
C40_NoClientUnlessReady ==
    (acme.ran /\ acme.out.ready = "False") => ~acme.out.registry

=============================================================================
